---- MODULE Spec2Model ----
(***************************************************************************)
(* The session bridge of agent-chat.nvim: the Go RPC host that owns the    *)
(* table of agent sessions (SessionManager), the editor glue that calls    *)
(* its verbs, and the agent subprocesses it talks to.                      *)
(*                                                                         *)
(* The editor reaches the host over msgpack-RPC.  vim.rpcrequest blocks    *)
(* the editor until the handler has replied and the host runs the handler  *)
(* in a goroutine of its own; vim.rpcnotify returns at once and the host   *)
(* runs notification handlers one after the other, in arrival order, on a  *)
(* single goroutine.  A handler is modelled as a thread with a program     *)
(* counter; each action is one step between two of its blocking points.    *)
(*                                                                         *)
(* Spec is the bridge.  McpSpec is the MCP server negotiation inside       *)
(* AcpNewSession (translate every entry of opts.Mcp, filter by the agent's *)
(* capabilities) over all small configurations; PermSpec is one            *)
(* RequestPermission call over all small option lists.                     *)
(***************************************************************************)
EXTENDS Integers, Sequences, FiniteSets

\* ------------------------------------------------------------ bounds
NumBufs == 2
MaxCalls == 4
MaxQueue == 1
MaxThreads == 3
MaxCmd == 2
MaxOptions == 3
MaxContent == 3
IntBits == 4
NumEdBufs == 2
MaxItems == 2
MaxChunks == 2

\* Buffers the editor glue creates and commands the user issues.
NumGlueBufs == 2
MaxGlueCmds == 5

\* RPC host jobs the editor starts.
MaxJobs == 3

\* Prompt requests the test agent receives on one session.
MaxPrompts == 3

Bufs == 1..NumBufs
SessIds == 1..MaxCalls
Threads == 1..MaxThreads
None == 0

Verbs == {"NewSession", "SendPrompt", "Cancel", "SetMode", "Stop"}
Texts == {"", "hello"}
ModeIds == {"code"}

VARIABLES
    mu,        \* SessionManager.mu: the thread holding it, None when free
    sessions,  \* SessionManager.sessions: bufnr -> session object, None when absent
    sess,      \* the session objects (AcpSession) and what their handles refer to
    agent,     \* per agent subprocess: prompts outstanding, abort flag
    wire,      \* per agent subprocess: the protocol messages written to its stdin
    buffer,    \* per editor buffer: the texts appended by append_text
    handler,   \* the running RPC handlers
    queue,     \* notifications received and not yet dispatched
    calls,     \* RPC calls issued by the editor so far
    crashed,   \* the host process died of a panic
    modes,     \* per editor buffer: M.state.sessions[bufnr].modes.CurrentModeId
    mcp,       \* the MCP server negotiation of one AcpNewSession call
    perm,      \* one RequestPermission call of the agent
    fs,        \* one ReadTextFile or WriteTextFile call: the disk, the editor's buffers
    upd,       \* one SessionUpdate notification of the agent
    turn,      \* prompt turns of two sessions: agents, host callbacks, the editor's loop
    glue,      \* the editor glue: M.state and what the user has been shown
    testAgent  \* the test agent: one session's pendingPrompt and its prompt calls

vars == <<mu, sessions, sess, agent, wire, buffer, handler, queue, calls, crashed,
          modes, mcp, perm, fs, upd, turn, glue, testAgent>>

\* The state of the client-side callbacks and of the editor glue.
clientSide == <<fs, upd, turn, glue, testAgent>>

\* ------------------------------------------------------------ session objects

\* An AcpSession before AcpNewSession has allocated it.
NoSession ==
    [bufnr |-> None, conn |-> FALSE, sessionID |-> 0, ctx |-> FALSE,
     cancel |-> FALSE, cmd |-> FALSE, autoApprove |-> FALSE,
     scope |-> "none", proc |-> "none"]

\* The opaque session id the agent of session object s hands out.
AgentSessionId(s) == 10 + s

\* cleanup resetting the handles without first cancelling and killing.
cleanupHandlesOnly(r) ==
    [r EXCEPT !.conn = FALSE, !.sessionID = 0, !.ctx = FALSE, !.cancel = FALSE,
              !.cmd = FALSE]

\* AcpSession.cleanup: cancel the scope, kill the subprocess, reset every handle.
\* Cancelling the scope of exec.CommandContext kills the subprocess as well.
cleanup(r) ==
    [r EXCEPT !.scope = IF r.cancel THEN "cancelled" ELSE @,
              !.proc = IF r.proc = "running" /\ (r.cmd \/ r.cancel) THEN "dead" ELSE @,
              !.conn = FALSE,
              !.sessionID = 0,
              !.ctx = FALSE,
              !.cancel = FALSE,
              !.cmd = FALSE]

\* The agent's own bookkeeping, lost when its process ends: the prompts it has
\* not resolved, whether it was told to cancel, and its current mode.
NoAgent == [pending |-> 0, aborted |-> FALSE, mode |-> ""]

\* The mode an agent reports as current in its new-session response.
InitialModeId == "ask"

\* ------------------------------------------------------------ MCP servers

\* A value of a loosely typed configuration mapping: <<>> when the key is
\* absent, <<v>> when it is present with value v.
Absent == <<>>

Has(config, key) == config[key] # Absent

Get(config, key) == config[key][1]

\* The keys of opts.Mcp.
ServerNames == {"a", "b"}

\* The command lists of the configuration: an executable and its arguments.
Words == <<"echo", "hi", "there", "all">>

CmdLists == {SubSeq(Words, 1, n) : n \in 0..MaxCmd}

\* The env and headers mappings of the configuration, as their entries.
KeyValues == {<<[Name |-> "K", Value |-> "v"]>>}

\* The configuration mappings of one MCP server.
McpConfigs ==
    [type : {Absent, <<"stdio">>, <<"bogus">>}, cmd : {Absent} \cup {<<c>> : c \in CmdLists},
     env : {Absent} \cup {<<e>> : e \in KeyValues}, name : {Absent, <<"n">>},
     url : {Absent}, headers : {Absent}]
    \cup
    [type : {<<"http">>, <<"sse">>}, cmd : {Absent}, env : {Absent},
     name : {Absent, <<"n">>}, url : {Absent, <<"https://x">>},
     headers : {Absent} \cup {<<h>> : h \in KeyValues}]

\* t, _ := config["type"].(string)
TypeOf(config) == IF Has(config, "type") THEN Get(config, "type") ELSE ""

\* case "http", "sse" of the switch over the type field.
IsRemote(t) == t \in {"http", "sse"}

\* The argument loop running over the whole of cmd.
ArgsOfWhole(cmdSlice) == cmdSlice

\* for _, a := range cmdSlice[1:], when cmd has more than one element.
ArgsOf(cmdSlice) == IF Len(cmdSlice) > 1 THEN Tail(cmdSlice) ELSE <<>>

\* The result of a translation that panicked: config["url"].(string), an
\* assertion without the ok form, on a mapping that has no url.
Panic ==
    [kind |-> "panic", Name |-> "", Type |-> "", Url |-> "", Headers |-> <<>>,
     Command |-> "", Args |-> <<>>, Env |-> <<>>]

\* ConvertMcpConfigToMcpServer: the descriptor built from one configuration
\* mapping.  Its error result is nil on every path.
ConvertMcpConfigToMcpServer(name, config) ==
    LET t == TypeOf(config)
        serverName == IF Has(config, "name") THEN Get(config, "name") ELSE name
    IN IF IsRemote(t)
       THEN IF ~Has(config, "url")
            THEN Panic
            ELSE [kind |-> t, Name |-> serverName, Type |-> t,
                  Url |-> Get(config, "url"),
                  Headers |-> IF Has(config, "headers") THEN Get(config, "headers")
                              ELSE <<>>,
                  Command |-> "", Args |-> <<>>, Env |-> <<>>]
       ELSE LET cmdSlice == IF Has(config, "cmd") THEN Get(config, "cmd") ELSE <<>>
            IN [kind |-> "stdio", Name |-> serverName, Type |-> "", Url |-> "",
                Headers |-> <<>>,
                Command |-> IF Len(cmdSlice) > 0 THEN cmdSlice[1] ELSE "",
                Args |-> ArgsOf(cmdSlice),
                Env |-> IF Has(config, "env") THEN Get(config, "env") ELSE <<>>]

\* A Go slice: nil, or a list of items.
NilSlice == [null |-> TRUE, items |-> <<>>]

\* make([]T, 0)
EmptySlice == [null |-> FALSE, items |-> <<>>]

\* append(slice, item): the result is never nil.
append(slice, item) == [null |-> FALSE, items |-> Append(slice.items, item)]

\* A filter that looks at the http capability only.
SupportedHttpOnly(srv, caps) == ~(srv.kind = "http" /\ ~caps.Http)

\* The loop body of the capability filter: a server is kept unless it is http
\* or sse and the agent did not advertise that transport.
Supported(srv, caps) ==
    /\ ~(srv.kind = "http" /\ ~caps.Http)
    /\ ~(srv.kind = "sse" /\ ~caps.Sse)

\* for _, srv := range mcpServers: the filtered list, in the order of the input.
RECURSIVE Filter(_, _)
Filter(list, caps) ==
    IF list = <<>> THEN EmptySlice
    ELSE LET front == Filter(SubSeq(list, 1, Len(list) - 1), caps)
             srv == list[Len(list)]
         IN IF Supported(srv, caps) THEN append(front, srv) ELSE front

\* No negotiation in progress.
NoMcp ==
    [pc |-> "idle", opts |-> <<>>, caps |-> [Http |-> FALSE, Sse |-> FALSE],
     todo |-> {}, mcpServers |-> NilSlice, name |-> "", sent |-> NilSlice]

\* The mappings opts.Mcp can hold.
OptsMcp == UNION {[S -> McpConfigs] : S \in SUBSET ServerNames}

\* The MCP capabilities of an initialize response.
McpCapabilities == [Http : BOOLEAN, Sse : BOOLEAN]

\* The negotiation starts with opts.Mcp and the capabilities the agent advertised.
McpStarted(opts, caps) ==
    [NoMcp EXCEPT !.pc = "convert", !.opts = opts, !.caps = caps, !.todo = DOMAIN opts]

\* ------------------------------------------------------------ permission requests

Kinds == {"allow_once", "allow_always", "reject_once", "reject_always"}

\* The i-th option of a request: an id, a display name and a kind.
Option(i, kind) == [OptionId |-> 100 + i, Name |-> 200 + i, Kind |-> kind]

\* The option lists of a request.
OptionLists ==
    UNION {{[i \in 1..n |-> Option(i, ks[i])] : ks \in [1..n -> Kinds]} : n \in 0..MaxOptions}

\* The numbers inputlist() can return.
HostAnswers == -1 .. MaxOptions + 1

\* An auto-approval that takes allow-once options only.
IsAllowOnceOnly(kind) == kind = "allow_once"

\* o.Kind == PermissionOptionKindAllowOnce || o.Kind == PermissionOptionKindAllowAlways
IsAllow(kind) == kind = "allow_once" \/ kind = "allow_always"

\* A response that carries the display name where the id belongs.
SelectedByName(option) == [Selected |-> <<option.Name>>, Cancelled |-> FALSE]

\* RequestPermissionOutcome{Selected: &...{OptionId: o.OptionId}}
Selected(option) == [Selected |-> <<option.OptionId>>, Cancelled |-> FALSE]

\* RequestPermissionOutcome{Cancelled: &...{}}
Cancelled == [Selected |-> <<>>, Cancelled |-> TRUE]

\* No response yet.
NoOutcome == [Selected |-> <<>>, Cancelled |-> FALSE]

\* The auto-approve branch: the first allow option, else the first option,
\* else cancelled.
AutoApprove(options) ==
    LET allow == {i \in 1..Len(options) : IsAllow(options[i].Kind)}
    IN IF allow # {}
       THEN Selected(options[CHOOSE i \in allow : \A j \in allow : i <= j])
       ELSE IF Len(options) > 0 THEN Selected(options[1]) ELSE Cancelled

\* Vim.uiSelect: the choice of inputlist(), -1 when it is out of range.
uiSelect(items, answer) == IF answer < 1 \/ answer > Len(items) THEN -1 ELSE answer

\* A range check that forgets the lower end.
OutOfRangeAbove(choice, n) == choice > n

\* choice < 1 || choice > len(params.Options)
OutOfRange(choice, n) == choice < 1 \/ choice > n

\* appendToBuffer("\n[Permission denied]\n")
Denied == [text |-> "[Permission denied]", name |-> 0]

\* A granted line that shows the option's id where its name belongs.
GrantedById(option) == [text |-> "[Permission granted: %s]", name |-> option.OptionId]

\* appendToBuffer(fmt.Sprintf("\n[Permission granted: %s]\n", selectedOption.Name))
Granted(option) == [text |-> "[Permission granted: %s]", name |-> option.Name]

\* No permission request in progress.
NoPerm ==
    [pc |-> "idle", autoApprove |-> FALSE, options |-> <<>>, outcome |-> NoOutcome,
     uiCalls |-> 0, appended |-> <<>>, failed |-> FALSE, answer |-> 0, indexed |-> <<>>]

\* ------------------------------------------------------------ client-side state at rest

\* ------------------------------------------------------------ file requests

\* A string is the sequence of its characters; "\n" is the newline.
Chars == {"a", "b", "\n"}

\* The strings of at most MaxContent characters.
Contents == UNION {[1..n -> Chars] : n \in 0..MaxContent}

\* Go's int, scaled down to IntBits bits: the sum of two ints wraps around.
MaxInt == 2^(IntBits - 1) - 1

MinInt == -(2^(IntBits - 1))

Wrap(x) == ((x - MinInt) % 2^IntBits) + MinInt

\* x + y on ints.
Plus(x, y) == Wrap(x + y)

min(x, y) == IF x < y THEN x ELSE y

max(x, y) == IF x > y THEN x ELSE y

\* The paths of a request: empty, relative, and two absolute ones.
Paths == {<<>>, <<"f">>, <<"/", "f">>, <<"/", "d", "/", "f">>}

\* A path test that takes every non-empty path.
IsNotEmpty(path) == Len(path) > 0

\* filepath.IsAbs on Unix: the path starts with a slash.
IsAbs(path) == Len(path) > 0 /\ path[1] = "/"

\* filepath.Dir: the path up to its last slash, "/" for a file of the root.
Dir(path) ==
    LET slashes == {i \in 1..Len(path) : path[i] = "/"}
        last == CHOOSE i \in slashes : \A j \in slashes : j <= i
    IN IF slashes = {} THEN <<".">>
       ELSE IF last = 1 THEN <<"/">> ELSE SubSeq(path, 1, last - 1)

\* strings.Split(content, "\n") and bytes.Split: the pieces between newlines,
\* one more piece than there are newlines.
RECURSIVE Split(_)
Split(content) ==
    LET breaks == {i \in 1..Len(content) : content[i] = "\n"}
        first == CHOOSE i \in breaks : \A j \in breaks : i <= j
    IN IF breaks = {} THEN <<content>>
       ELSE <<SubSeq(content, 1, first - 1)>> \o Split(SubSeq(content, first + 1, Len(content)))

\* strings.Join(lines, "\n") and bytes.Join.
RECURSIVE Join(_)
Join(lines) ==
    IF lines = <<>> THEN <<>>
    ELSE IF Len(lines) = 1 THEN lines[1]
    ELSE lines[1] \o <<"\n">> \o Join(Tail(lines))

\* An optional int parameter (*int): absent, or present with a value.
Nil == <<>>

\* The start lines and limits of a read request.
LineArgs == {Nil} \cup {<<i>> : i \in -1 .. MaxContent + 2}

LimitArgs == {Nil} \cup {<<i>> : i \in -1 .. MaxContent + 2} \cup {<<MaxInt>>}

\* The buffers of the editor that hold files.
EdBufs == 1..NumEdBufs

\* What the host's bufnr() answers: an error (the result stays 0), -1 for no
\* such buffer, or the number of the buffer that matches.
BufnrReplies ==
    {[result |-> 0, err |-> TRUE], [result |-> -1, err |-> FALSE]}
        \cup {[result |-> b, err |-> FALSE] : b \in EdBufs}

\* Vim.bufnr: a result of 0 becomes buffer 1.
bufnr(reply) == [buf |-> IF reply.result = 0 THEN 1 ELSE reply.result, err |-> reply.err]

\* A test that takes any buffer number, whether or not the call failed.
HasBufferIgnoringError(b) == b.buf # -1

\* err == nil && buf != -1
HasBuffer(b) == ~b.err /\ b.buf # -1

\* A reading of the end index in which -1 stands for the last line and
\* leaves it out.
BufferLinesExclusive(lines, start, end) ==
    LET n == Len(lines)
        norm(i) == max(0, min(n, IF i < 0 THEN i + n ELSE i))
    IN IF norm(start) >= norm(end) THEN <<>> ELSE SubSeq(lines, norm(start) + 1, norm(end))

\* nvim_buf_get_lines with strict_indexing off: zero-based, end-exclusive, a
\* negative index counts from the end (-1 is one past the last line), and
\* indices out of bounds are clamped.
BufferLines(lines, start, end) ==
    LET n == Len(lines)
        norm(i) == max(0, min(n, IF i < 0 THEN i + n + 1 ELSE i))
    IN IF norm(start) >= norm(end) THEN <<>> ELSE SubSeq(lines, norm(start) + 1, norm(end))

\* The slice of the lines of an open buffer that ReadTextFile asks for.
ReadFromBuffer(lines, line, limit) ==
    LET start == IF line # Nil /\ line[1] > 0 THEN line[1] - 1 ELSE 0
        end == IF limit # Nil /\ limit[1] > 0 THEN Plus(start, limit[1]) ELSE -1
    IN [panic |-> FALSE, content |-> Join(BufferLines(lines, start, end))]

\* start of the disk path: min(max(*params.Line-1, 0), len(lines)) for a
\* positive start line, else 0.
SliceStart(lines, line) ==
    IF line # Nil /\ line[1] > 0 THEN min(max(line[1] - 1, 0), Len(lines)) ELSE 0

\* end of the disk path: start + *params.Limit, computed in machine integers,
\* when the limit is positive and that sum is below len(lines), else len(lines).
SliceEnd(lines, line, limit) ==
    LET start == SliceStart(lines, line)
    IN IF limit # Nil /\ limit[1] > 0 /\ Plus(start, limit[1]) < Len(lines)
       THEN Plus(start, limit[1]) ELSE Len(lines)


\* The slice of a file on disk that ReadTextFile returns; lines[start:end]
\* panics when end is below start.
ReadFromDisk(content, line, limit) ==
    IF line = Nil /\ limit = Nil THEN [panic |-> FALSE, content |-> content]
    ELSE LET lines == Split(content)
             start == SliceStart(lines, line)
             end == SliceEnd(lines, line, limit)
         IN IF end < start \/ end < 0
            THEN [panic |-> TRUE, content |-> <<>>]
            ELSE [panic |-> FALSE, content |-> Join(SubSeq(lines, start + 1, end))]

\* A confirmation that is written twice.
ConfirmTwice(chat, text, path, bytes) ==
    chat \o <<[text |-> text, path |-> path, bytes |-> bytes],
              [text |-> text, path |-> path, bytes |-> bytes]>>

\* c.session.appendToBuffer(fmt.Sprintf(text, ...)) of the file callbacks.
Confirm(chat, text, path, bytes) ==
    Append(chat, [text |-> text, path |-> path, bytes |-> bytes])

\* A successful response of ReadTextFile or WriteTextFile.
NoError == ""

\* What an editor buffer and a file hold before a write request.
OldLines == <<<<"b">>>>

OldContent == <<"b">>

\* No file request in progress.
NoFs ==
    [pc |-> "idle", op |-> "none", path |-> <<>>, content |-> <<>>, line |-> Nil,
     limit |-> Nil, buf |-> [buf |-> -1, err |-> FALSE], reported |-> 0,
     disk |-> [p \in {q \in Paths : IsAbs(q)} |-> <<>>],
     dirs |-> {<<"/">>}, bufs |-> [b \in EdBufs |-> <<<<>>>>], chat |-> <<>>,
     touched |-> {}, err |-> NoError, result |-> <<>>, wrote |-> <<>>]

\* ------------------------------------------------------------ session updates

\* The variants of acp.SessionUpdate, "none" for an update with no field set.
Variants ==
    {"AgentMessageChunk", "ToolCall", "ToolCallUpdate", "Plan", "AgentThoughtChunk",
     "AvailableCommandsUpdate", "UserMessageChunk", "CurrentModeUpdate", "none"}

\* A content block: text, or a block of another kind (Text is nil).
Blocks == {Nil, <<"text">>}

\* A diff of a tool call: a path, the old text (nil for a new file), the new text.
Diffs == {[Path |-> "/f", OldText |-> old, NewText |-> "new"] : old \in {Nil, <<"old">>}}

\* An item of tool-call content: a content block, a diff, or neither (a terminal).
Items ==
    {[Content |-> <<b>>, Diff |-> Nil] : b \in Blocks}
        \cup {[Content |-> Nil, Diff |-> <<d>>] : d \in Diffs}
        \cup {[Content |-> Nil, Diff |-> Nil]}

ItemLists == UNION {[1..n -> Items] : n \in 0..MaxItems}

\* What vim.text.diff answers: an error, no difference, or a unified diff.
DiffAnswers == {"error", "", "@@ -1 +1 @@"}

\* The updates an agent sends, one record shape for all variants.
Update(variant, text, title, status, content) ==
    [variant |-> variant, Text |-> text, Title |-> title, Status |-> status,
     Content |-> content]

Updates ==
    {Update("AgentMessageChunk", b, Nil, Nil, <<>>) : b \in Blocks}
        \cup {Update("AgentThoughtChunk", b, Nil, Nil, <<>>) : b \in Blocks}
        \cup {Update("UserMessageChunk", b, Nil, Nil, <<>>) : b \in Blocks}
        \cup {Update("ToolCall", Nil, <<"title">>, <<"pending">>, c) : c \in ItemLists}
        \cup {Update("ToolCallUpdate", Nil, t, st, c) :
                 t \in {Nil, <<"title">>}, st \in {Nil, <<"completed">>}, c \in ItemLists}
        \cup {Update(v, Nil, Nil, Nil, <<>>) :
                 v \in {"Plan", "AvailableCommandsUpdate", "CurrentModeUpdate", "none"}}

\* One appendToBuffer call: the format and its arguments (the tool icon of the
\* tool-call headers is written * here).
Text(format, args) == [format |-> format, args |-> args]

\* AcpSession.showDiff: nothing when the host fails or finds no difference,
\* else the fenced diff in four appends (the fence of three backquotes is
\* written ~~~ here).
showDiff(diff, answer) ==
    IF answer \in {"error", ""} THEN <<>>
    ELSE <<Text("\n~~~diff\n", <<>>), Text("--- %s\n+++ %s\n", <<diff.Path, diff.Path>>),
           Text("%s", <<answer>>), Text("\n~~~\n", <<>>)>>

\* The loop over the content of a tool call: the text of a text block, the
\* diff of a diff item.
RECURSIVE RenderContent(_, _)
RenderContent(content, answers) ==
    IF content = <<>> THEN <<>>
    ELSE LET tc == Head(content)
             text == IF tc.Content # Nil /\ tc.Content[1] # Nil
                     THEN <<Text("%s", tc.Content[1])>> ELSE <<>>
             diff == IF tc.Diff # Nil THEN showDiff(tc.Diff[1], Head(answers)) ELSE <<>>
         IN text \o diff \o RenderContent(Tail(content), Tail(answers))

\* A header that shows a status whether or not there is content.
ToolCallUpdateHeaderAnyStatus(u) ==
    IF u.Title # Nil /\ u.Status # Nil
    THEN <<Text("\n* %s (%s)\n", u.Title \o u.Status)>>
    ELSE IF u.Title # Nil THEN <<Text("\n* %s\n", u.Title)>>
    ELSE IF u.Status # Nil THEN <<Text("\n* %s\n", u.Status)>>
    ELSE <<>>

\* The header of a tool-call update: title and status, the title alone, or
\* the status alone when there is content to show.
ToolCallUpdateHeader(u) ==
    LET hasContent == Len(u.Content) > 0
        hasTitle == u.Title # Nil
    IN IF hasTitle /\ u.Status # Nil
       THEN <<Text("\n* %s (%s)\n", u.Title \o u.Status)>>
       ELSE IF hasTitle THEN <<Text("\n* %s\n", u.Title)>>
       ELSE IF u.Status # Nil /\ hasContent THEN <<Text("\n* %s\n", u.Status)>>
       ELSE <<>>

\* The switch of SessionUpdate: what each variant appends to the bound buffer.
Rendered(u, answers) ==
    CASE u.variant = "AgentMessageChunk" ->
           IF u.Text # Nil THEN <<Text("%s", u.Text)>> ELSE <<>>
      [] u.variant = "ToolCall" ->
           <<Text("\n* %s (%s)\n", u.Title \o u.Status)>> \o RenderContent(u.Content, answers)
      [] u.variant = "ToolCallUpdate" ->
           ToolCallUpdateHeader(u) \o RenderContent(u.Content, answers)
      [] u.variant = "Plan" -> <<Text("[Plan update]\n", <<>>)>>
      [] u.variant = "AgentThoughtChunk" ->
           IF u.Text # Nil THEN <<Text("[Thought] %s\n", u.Text)>> ELSE <<>>
      [] u.variant = "AvailableCommandsUpdate" -> <<>>
      [] u.variant = "UserMessageChunk" -> <<>>
      [] u.variant = "CurrentModeUpdate" -> <<>>
      [] OTHER -> <<>>

\* No session update in progress.
NoUpd ==
    [pc |-> "idle", update |-> Update("none", Nil, Nil, Nil, <<>>), appended |-> <<>>,
     err |-> NoError]

\* ------------------------------------------------------------ prompt turns

\* Two sessions, each with its agent and its chat buffer.
TurnSessions == {1, 2}

\* What an agent writes during a turn: message chunks, a permission request,
\* and the response to the prompt at the end.
Chunk(s, i) == [kind |-> "chunk", text |-> <<s, i>>]

PermissionRequest == [kind |-> "permission", text |-> <<>>]

EndTurn == [kind |-> "end_turn", text |-> <<>>]

\* The turns of the agent of session s: one to MaxChunks chunks, with or
\* without a permission request after the first chunk, then end of turn.
Scripts(s) ==
    {<<Chunk(s, 1)>> \o (IF asks THEN <<PermissionRequest>> ELSE <<>>)
        \o [i \in 1..(n - 1) |-> Chunk(s, i + 1)] \o <<EndTurn>> :
     n \in 1..MaxChunks, asks \in BOOLEAN}

\* No prompt turn in progress.
NoTurn ==
    [pc |-> "idle",
     script |-> [s \in TurnSessions |-> <<>>],
     waiting |-> [s \in TurnSessions |-> FALSE],
     pipe |-> [s \in TurnSessions |-> <<>>],
     emitted |-> [s \in TurnSessions |-> <<>>],
     host |-> [s \in TurnSessions |-> "idle"],
     requests |-> <<>>,
     scheduled |-> <<>>,
     mode |-> "loop",
     asking |-> 0,
     buffer |-> [s \in TurnSessions |-> <<>>]]

\* ---- the editor glue (M.state) and the host's answers to its verbs

\* Buffers that M.start can create, numbered in the order of creation.
GlueBufs == 1..NumGlueBufs

\* How the agent, or the transport to it, answers a verb.
Outcomes == {"ok", "error"}

\* What the user can type at the prompt.
PromptTexts == {"", "hi"}

\* One failed verb and the ways it was shown: returned to the editor function
\* that issued it, written into the buffer, printed by the host (which the
\* glue's on_stderr turns into a notification); kept tells whether M.state
\* still had the buffer's session entry when the verb failed.
Failure(verb, b, returned, inline, printed, kept) ==
    [verb |-> verb, buf |-> b, returned |-> returned, inline |-> inline,
     printed |-> printed, kept |-> kept]

\* The job ids jobstart hands out, NoJob for M.state.rpc_host_job_id = nil.
Jobs == 1..MaxJobs
NoJob == 0

\* The editor glue before any command: no host job, no session, nothing sent.
\* job is M.state.rpc_host_job_id; procs are the host processes whose exit
\* callback has not run yet, stopped those of them that jobstop was called
\* for; served tells which job was current when the session was recorded;
\* host and sent are the table and the unserved notifications of the process
\* started last, serving.
NoGlue ==
    [pc |-> "idle",
     job |-> NoJob,
     serving |-> NoJob,
     started |-> 0,
     procs |-> {},
     stopped |-> {},
     served |-> [b \in GlueBufs |-> NoJob],
     created |-> 0,
     sessions |-> {},
     shown |-> {},
     host |-> {},
     sent |-> <<>>,
     failures |-> {},
     cmds |-> 0]

\* ------------------------------------------------------------ the test agent

\* The prompt requests of one session of the test agent, numbered in the
\* order of arrival; the AbortController a prompt creates carries its number.
Prompts == 1..MaxPrompts
NoController == 0

\* What the user typed: "test:text" and any other text are answered by one
\* session update, "test:read" and "test:write" by a tool call.
PromptKinds == {"text", "tool"}

\* The awaits of handlePrompt in the order they are reached.  Each one is a
\* point where the event loop runs other messages of the connection.
TextAwaits == <<"sessionUpdate">>
ToolAwaits == <<"sessionUpdate", "simulateDelay", "sessionUpdate", "requestPermission">>
AllowedAwaits == <<"fileCall", "sessionUpdate", "simulateDelayInTry", "sessionUpdate">>
DeniedAwaits == <<"sessionUpdate">>
CatchAwaits == <<"sessionUpdate">>

Awaits(kind) == IF kind = "text" THEN TextAwaits ELSE ToolAwaits

\* A prompt request not yet received.
NoPrompt == [pc |-> "none", rest |-> <<>>, result |-> "none"]

\* One session of the test agent after newSession: pendingPrompt is null and
\* no controller has been aborted.
NoTestAgent ==
    [pc |-> "idle",
     pendingPrompt |-> NoController,
     aborted |-> {},
     prompts |-> [p \in Prompts |-> NoPrompt]]

\* ------------------------------------------------------------ handlers

Idle ==
    [verb |-> "none", via |-> "none", bufnr |-> None, arg |-> "",
     pc |-> "idle", s |-> None, result |-> "none"]

IsIdle(t) == handler[t].verb = "none"

\* The goroutine a new handler runs on.
FreeThread == CHOOSE t \in Threads : IsIdle(t) /\ \A u \in Threads : u < t => ~IsIdle(u)

\* How the editor glue sends each verb: "req" is vim.rpcrequest, "ntf" vim.rpcnotify.
Transports(verb) ==
    CASE verb = "NewSession" -> {"req", "ntf"}
      [] verb = "SendPrompt" -> {"ntf"}
      [] verb = "Cancel" -> {"ntf"}
      [] verb = "SetMode" -> {"req"}
      [] verb = "Stop" -> {"req"}

\* The opts.Mcp a NewSession call is given, by name: one http server, whose
\* configuration has a url or has none.  For an agent that does not speak
\* http the first is filtered away, which leaves the request of a call that
\* was given no server at all.
McpOpts == {"http", "nourl"}

OptsOf(arg) ==
    IF arg = "nourl"
    THEN [n \in {"a"} |-> [type |-> <<"http">>, cmd |-> Absent, env |-> Absent,
                           name |-> Absent, url |-> Absent, headers |-> Absent]]
    ELSE IF arg = "http"
    THEN [n \in {"a"} |-> [type |-> <<"http">>, cmd |-> Absent, env |-> Absent,
                           name |-> Absent, url |-> <<"https://x">>,
                           headers |-> Absent]]
    ELSE <<>>

\* The loop over opts.Mcp for a mapping of at most one entry: var mcpServers,
\* with the translated entry appended.
Converted(opts) ==
    IF DOMAIN opts = {} THEN NilSlice
    ELSE LET n == CHOOSE n \in DOMAIN opts : TRUE
         IN append(NilSlice, ConvertMcpConfigToMcpServer(n, opts[n]))

\* What the agents advertise: the agent of the first session object speaks
\* http to MCP servers, the others do not; none speaks sse.
AgentHttp(s) == s = 1

\* Capabilities taken before any initialize response: the zero value.
initResZero(s) == [Http |-> FALSE, Sse |-> FALSE]

\* initRes.AgentCapabilities.McpCapabilities of the initialize response of
\* the agent of session object s.
initRes(s) == [Http |-> AgentHttp(s), Sse |-> FALSE]

\* The new-session request: the working directory and the MCP servers.
NewSessionRequest(mcpServers) ==
    [method |-> "session/new", sid |-> 0, McpServers |-> mcpServers]

Args(verb) ==
    CASE verb = "SendPrompt" -> Texts
      [] verb = "SetMode" -> ModeIds
      [] verb = "NewSession" -> McpOpts
      [] OTHER -> {""}

\* The editor is inside vim.rpcrequest, waiting for the reply.
EditorBlocked == \E t \in Threads : handler[t].via = "req"

\* A host that starts every notification handler at once.
NotifyWorkerAlwaysIdle == TRUE

\* The goroutine that runs notification handlers is free to take the next one.
NotifyWorkerIdle == \A t \in Threads : handler[t].via # "ntf"

Started(verb, via, b, arg) ==
    [verb |-> verb, via |-> via, bufnr |-> b, arg |-> arg,
     pc |-> "start", s |-> None, result |-> "none"]

\* ------------------------------------------------------------ initial state

Init ==
    /\ mu = None
    /\ sessions = [b \in Bufs |-> None]
    /\ sess = [s \in SessIds |-> NoSession]
    /\ agent = [s \in SessIds |-> NoAgent]
    /\ wire = [s \in SessIds |-> <<>>]
    /\ buffer = [b \in Bufs |-> <<>>]
    /\ handler = [t \in Threads |-> Idle]
    /\ queue = <<>>
    /\ calls = 0
    /\ crashed = FALSE
    /\ modes = [b \in Bufs |-> ""]
    /\ mcp = NoMcp
    /\ perm = NoPerm
    /\ fs = NoFs
    /\ upd = NoUpd
    /\ turn = NoTurn
    /\ glue = NoGlue
    /\ testAgent = NoTestAgent

\* ------------------------------------------------------------ the editor

\* vim.rpcrequest: the host starts the handler on a goroutine of its own.
rpcrequest(verb, b, arg) ==
    /\ ~crashed
    /\ calls < MaxCalls
    /\ "req" \in Transports(verb)
    /\ ~EditorBlocked
    /\ \E t \in Threads : IsIdle(t)
    /\ handler' = [handler EXCEPT ![FreeThread] = Started(verb, "req", b, arg)]
    /\ calls' = calls + 1
    /\ UNCHANGED <<mu, sessions, sess, agent, wire, buffer, queue, crashed, modes, mcp, perm, clientSide>>

\* vim.rpcnotify: the host queues the notification.
rpcnotify(verb, b, arg) ==
    /\ ~crashed
    /\ calls < MaxCalls
    /\ "ntf" \in Transports(verb)
    /\ ~EditorBlocked
    /\ Len(queue) < MaxQueue
    /\ queue' = Append(queue, [verb |-> verb, bufnr |-> b, arg |-> arg])
    /\ calls' = calls + 1
    /\ UNCHANGED <<mu, sessions, sess, agent, wire, buffer, handler, crashed, modes, mcp, perm, clientSide>>

\* The host's notification goroutine takes the oldest notification.
runNotifications ==
    /\ ~crashed
    /\ queue # <<>>
    /\ NotifyWorkerIdle
    /\ \E t \in Threads : IsIdle(t)
    /\ handler' = [handler EXCEPT ![FreeThread] =
                      Started(Head(queue).verb, "ntf", Head(queue).bufnr, Head(queue).arg)]
    /\ queue' = Tail(queue)
    /\ UNCHANGED <<mu, sessions, sess, agent, wire, buffer, calls, crashed, modes, mcp, perm, clientSide>>

\* ------------------------------------------------------------ helpers

At(t, verb, pc) == ~crashed /\ handler[t].verb = verb /\ handler[t].pc = pc

Goto(t, pc) == [handler EXCEPT ![t].pc = pc]

Finish(t, result) == [handler EXCEPT ![t].pc = "ret", ![t].result = result]

\* m.sessions[bufnr] has an entry.
Exists(b) == sessions[b] # None

\* AcpNewSession with its membership check left out.
AlreadyExistsNever(b) == FALSE

\* The membership check of AcpNewSession, made with the mutex held.
AlreadyExists(b) == sessions[b] # None

\* The session object a new AcpSession{...} literal allocates.
NewSessionObject ==
    CHOOSE s \in SessIds :
        sess[s].bufnr = None /\ \A u \in SessIds : u < s => sess[u].bufnr # None

\* appendToBuffer whose editor call is dropped.
appendNothing(b, text) == buffer

\* AcpSession.appendToBuffer: ExecLua of append_text, which appends at the input point.
appendToBuffer(b, text) == [buffer EXCEPT ![b] = Append(@, text)]

\* A message written to the stdin of the agent of session object s.
Send(s, method, sid) == [wire EXCEPT ![s] = Append(@, [method |-> method, sid |-> sid])]

\* The agent of s can still read requests and write responses.
Running(s) == sess[s].proc = "running"

\* A call on the connection of s fails without any answer from the agent:
\* its scope was cancelled or its transport is severed.
Severed(s) == sess[s].scope = "cancelled" \/ sess[s].proc # "running"

\* AcpSendPrompt with its empty-prompt check left out.
IsEmptyPromptNever(text) == FALSE

\* prompt == "" in AcpSendPrompt.
IsEmptyPrompt(text) == text = ""

\* ------------------------------------------------------------ AcpNewSession

\* Lock, the membership check, the session object, the spawn and the
\* initialize request (up to the first blocking point).
AcpNewSessionSpawn(t) ==
    /\ At(t, "NewSession", "start")
    /\ mu = None
    /\ mu' = t
    /\ LET b == handler[t].bufnr
           s == NewSessionObject
           scoped == [NoSession EXCEPT !.bufnr = b, !.ctx = TRUE, !.cancel = TRUE,
                                       !.scope = "live"]
       IN IF AlreadyExists(b)
          THEN /\ handler' = Finish(t, "AlreadyExists")
               /\ UNCHANGED <<sess, wire>>
          ELSE \E started \in BOOLEAN :
                 IF started
                 THEN /\ sess' = [sess EXCEPT ![s] =
                                    [scoped EXCEPT !.cmd = TRUE, !.proc = "running",
                                                   !.conn = TRUE]]
                      /\ wire' = Send(s, "initialize", 0)
                      /\ handler' = [Goto(t, "await_init") EXCEPT ![t].s = s]
                 ELSE /\ sess' = [sess EXCEPT ![s] = scoped]
                      /\ handler' = [Finish(t, "SpawnFailure") EXCEPT ![t].s = s]
                      /\ UNCHANGED wire
    /\ UNCHANGED <<sessions, agent, buffer, queue, calls, crashed, modes, mcp, perm, clientSide>>

\* The initialize response arrives (or the call fails); on success os.Getwd
\* and the new-session request follow.  A panic of the conversion unwinds the
\* goroutine, which runs the deferred Unlock, and then ends the host process.
AcpNewSessionInitialize(t) ==
    /\ At(t, "NewSession", "await_init")
    /\ LET s == handler[t].s
           opts == OptsOf(handler[t].arg)
       IN \E outcome \in {"ok", "getwd", "error"} :
            /\ outcome \in {"ok", "getwd"} => Running(s)
            /\ IF outcome = "ok"
               THEN IF \E n \in DOMAIN opts :
                         ConvertMcpConfigToMcpServer(n, opts[n]).kind = "panic"
                    THEN /\ crashed' = TRUE
                         /\ handler' = Goto(t, "panic")
                         /\ mu' = None
                         /\ UNCHANGED <<sess, agent, wire>>
                    ELSE /\ wire' = [wire EXCEPT ![s] =
                                      Append(@, NewSessionRequest(
                                          Filter(Converted(opts).items, initRes(s))))]
                         /\ handler' = Goto(t, "await_new")
                         /\ UNCHANGED <<mu, sess, agent, crashed>>
               ELSE /\ sess' = [sess EXCEPT ![s] = cleanup(@)]
                    /\ agent' = [agent EXCEPT ![s] = NoAgent]
                    /\ handler' = Finish(t, IF outcome = "getwd" THEN "GetwdError"
                                            ELSE "InitializeError")
                    /\ UNCHANGED <<mu, wire, crashed>>
    /\ UNCHANGED <<sessions, buffer, queue, calls, modes, mcp, perm, clientSide>>

\* The new-session response arrives (or the call fails); on success the session
\* id is stored and set_and_show_prompt_buf is called in the editor.
AcpNewSessionCreate(t) ==
    /\ At(t, "NewSession", "await_new")
    /\ LET s == handler[t].s
       IN \E ok \in BOOLEAN :
            /\ ok => Running(s)
            /\ IF ok
               THEN /\ sess' = [sess EXCEPT ![s].sessionID = AgentSessionId(s)]
                    /\ agent' = [agent EXCEPT ![s].mode = InitialModeId]
                    /\ handler' = Goto(t, "await_editor")
               ELSE /\ sess' = [sess EXCEPT ![s] = cleanup(@)]
                    /\ agent' = [agent EXCEPT ![s] = NoAgent]
                    /\ handler' = Finish(t, "NewSessionError")
    /\ UNCHANGED <<mu, sessions, wire, buffer, queue, calls, crashed, modes, mcp, perm, clientSide>>

\* set_and_show_prompt_buf has stored the modes of the new-session response in
\* the editor; the call returns and the session is entered in the table.
AcpNewSessionRegister(t) ==
    /\ At(t, "NewSession", "await_editor")
    /\ modes' = [modes EXCEPT ![handler[t].bufnr] = InitialModeId]
    /\ sessions' = [sessions EXCEPT ![handler[t].bufnr] = handler[t].s]
    /\ handler' = Finish(t, "ok")
    /\ UNCHANGED <<mu, sess, agent, wire, buffer, queue, calls, crashed, mcp, perm, clientSide>>

\* ------------------------------------------------------------ AcpSendPrompt

\* The empty-prompt check, then the table lookup under the mutex.
AcpSendPromptLookup(t) ==
    /\ At(t, "SendPrompt", "start")
    /\ LET b == handler[t].bufnr
       IN IF IsEmptyPrompt(handler[t].arg)
          THEN handler' = Finish(t, "EmptyPrompt")
          ELSE /\ mu = None
               /\ IF Exists(b)
                  THEN handler' = [Goto(t, "call") EXCEPT ![t].s = sessions[b]]
                  ELSE handler' = Finish(t, "NotFound")
    /\ UNCHANGED <<mu, sessions, sess, agent, wire, buffer, queue, calls, crashed, modes, mcp, perm, clientSide>>

\* session.conn.Prompt(session.ctx, ...): the session's handles are read
\* without the mutex; a nil connection is dereferenced.
AcpSendPromptCall(t) ==
    /\ At(t, "SendPrompt", "call")
    /\ LET s == handler[t].s
       IN IF ~sess[s].conn
          THEN /\ crashed' = TRUE
               /\ UNCHANGED <<wire, agent, handler>>
          ELSE /\ handler' = Goto(t, "await_prompt")
               /\ IF Running(s)
                  THEN /\ wire' = Send(s, "session/prompt", sess[s].sessionID)
                       /\ agent' = [agent EXCEPT ![s].pending = @ + 1]
                  ELSE UNCHANGED <<wire, agent>>
               /\ UNCHANGED crashed
    /\ UNCHANGED <<mu, sessions, sess, buffer, queue, calls, modes, mcp, perm, clientSide>>

\* The agent resolves the prompt: a stop reason, or a structured RPC error,
\* which is rendered into the buffer.
AcpSendPromptAnswered(t) ==
    /\ At(t, "SendPrompt", "await_prompt")
    /\ LET s == handler[t].s
       IN /\ Running(s)
          /\ ~Severed(s)
          /\ agent[s].pending > 0
          /\ \E answer \in {"end_turn", "cancelled", "error"} :
               /\ answer = "cancelled" => agent[s].aborted
               /\ agent' = [agent EXCEPT ![s].pending = @ - 1,
                                         ![s].aborted = @ /\ agent[s].pending > 1]
               /\ IF answer = "error"
                  THEN /\ buffer' = appendToBuffer(sess[s].bufnr, "Error: request")
                       /\ handler' = Finish(t, "ProtocolError")
                  ELSE /\ handler' = Finish(t, answer)
                       /\ UNCHANGED buffer
    /\ UNCHANGED <<mu, sessions, sess, wire, queue, calls, crashed, modes, mcp, perm, clientSide>>

\* The prompt call fails without an answer: the scope was cancelled or the
\* transport severed.  The error is rendered into the buffer.
AcpSendPromptAborted(t) ==
    /\ At(t, "SendPrompt", "await_prompt")
    /\ Severed(handler[t].s)
    /\ buffer' = appendToBuffer(sess[handler[t].s].bufnr, "Error: transport")
    /\ handler' = Finish(t, "TransportFailure")
    /\ UNCHANGED <<mu, sessions, sess, agent, wire, queue, calls, crashed, modes, mcp, perm, clientSide>>

\* ------------------------------------------------------------ AcpCancel

\* A lookup that reports success for a buffer without session.
AcpCancelLookupSilent(t) ==
    /\ At(t, "Cancel", "start")
    /\ mu = None
    /\ LET b == handler[t].bufnr
       IN IF Exists(b)
          THEN handler' = [Goto(t, "call") EXCEPT ![t].s = sessions[b]]
          ELSE handler' = Finish(t, "ok")
    /\ UNCHANGED <<mu, sessions, sess, agent, wire, buffer, queue, calls, crashed, modes, mcp, perm, clientSide>>

\* The table lookup of AcpCancel under the mutex.
AcpCancelLookup(t) ==
    /\ At(t, "Cancel", "start")
    /\ mu = None
    /\ LET b == handler[t].bufnr
       IN IF Exists(b)
          THEN handler' = [Goto(t, "call") EXCEPT ![t].s = sessions[b]]
          ELSE handler' = Finish(t, "NotFound")
    /\ UNCHANGED <<mu, sessions, sess, agent, wire, buffer, queue, calls, crashed, modes, mcp, perm, clientSide>>

\* A cancel that ends the session's scope where it should notify the agent.
AcpCancelScope(t) ==
    /\ At(t, "Cancel", "call")
    /\ LET s == handler[t].s
       IN IF ~sess[s].conn
          THEN /\ crashed' = TRUE
               /\ UNCHANGED <<sess, agent, buffer, handler>>
          ELSE /\ sess' = [sess EXCEPT ![s].scope = "cancelled", ![s].proc = "dead"]
               /\ agent' = [agent EXCEPT ![s] = NoAgent]
               /\ buffer' = appendToBuffer(sess[s].bufnr, "Cancelled.")
               /\ handler' = Finish(t, "ok")
               /\ UNCHANGED crashed
    /\ UNCHANGED <<mu, sessions, wire, queue, calls, modes, mcp, perm, clientSide>>

\* session.conn.Cancel(...): a notification, written and not awaited.
AcpCancelSend(t) ==
    /\ At(t, "Cancel", "call")
    /\ LET s == handler[t].s
       IN IF ~sess[s].conn
          THEN /\ crashed' = TRUE
               /\ UNCHANGED <<wire, agent, buffer, handler>>
          ELSE /\ IF Running(s)
                  THEN /\ wire' = Send(s, "session/cancel", sess[s].sessionID)
                       /\ agent' = [agent EXCEPT ![s].aborted = @ \/ agent[s].pending > 0]
                       /\ buffer' = appendToBuffer(sess[s].bufnr, "Cancelled.")
                       /\ handler' = Finish(t, "ok")
                  ELSE /\ handler' = Finish(t, "TransportFailure")
                       /\ UNCHANGED <<wire, agent, buffer>>
               /\ UNCHANGED crashed
    /\ UNCHANGED <<mu, sessions, sess, queue, calls, modes, mcp, perm, clientSide>>

\* ------------------------------------------------------------ AcpSetMode

AcpSetModeLookup(t) ==
    /\ At(t, "SetMode", "start")
    /\ mu = None
    /\ LET b == handler[t].bufnr
       IN IF Exists(b)
          THEN handler' = [Goto(t, "call") EXCEPT ![t].s = sessions[b]]
          ELSE handler' = Finish(t, "NotFound")
    /\ UNCHANGED <<mu, sessions, sess, agent, wire, buffer, queue, calls, crashed, modes, mcp, perm, clientSide>>

\* session.conn.SetSessionMode(...): the request is written.
AcpSetModeCall(t) ==
    /\ At(t, "SetMode", "call")
    /\ LET s == handler[t].s
       IN IF ~sess[s].conn
          THEN /\ crashed' = TRUE
               /\ UNCHANGED <<wire, handler>>
          ELSE /\ handler' = Goto(t, "await_mode")
               /\ wire' = IF Running(s)
                          THEN Send(s, "session/set_mode", sess[s].sessionID)
                          ELSE wire
               /\ UNCHANGED crashed
    /\ UNCHANGED <<mu, sessions, sess, agent, buffer, queue, calls, modes, mcp, perm, clientSide>>

\* A handler that returns the requested mode id whatever the agent answered.
AcpSetModeErrorDropped(t) ==
    /\ At(t, "SetMode", "await_mode")
    /\ \E ok \in BOOLEAN :
         /\ ok => ~Severed(handler[t].s)
         /\ agent' = IF ok THEN [agent EXCEPT ![handler[t].s].mode = handler[t].arg]
                      ELSE agent
         /\ handler' = Finish(t, handler[t].arg)
    /\ UNCHANGED <<mu, sessions, sess, wire, buffer, queue, calls, crashed, modes, mcp, perm, clientSide>>

\* The agent acknowledges the mode or answers with an error, or the call
\* fails without an answer.
AcpSetModeAnswered(t) ==
    /\ At(t, "SetMode", "await_mode")
    /\ \E ok \in BOOLEAN :
         /\ ok => ~Severed(handler[t].s)
         /\ agent' = IF ok THEN [agent EXCEPT ![handler[t].s].mode = handler[t].arg]
                      ELSE agent
         /\ handler' = Finish(t, IF ok THEN handler[t].arg ELSE "SetModeError")
    /\ UNCHANGED <<mu, sessions, sess, wire, buffer, queue, calls, crashed, modes, mcp, perm, clientSide>>

\* ------------------------------------------------------------ ACPStop

\* ACPStop leaving the entry in the table.
deleteNothing(tbl, b) == tbl

\* The table entry after delete(m.sessions, bufnr).
delete(tbl, b) == [tbl EXCEPT ![b] = None]

\* Lock, lookup, cleanup, and the call of append_text in the editor.
ACPStopCleanup(t) ==
    /\ At(t, "Stop", "start")
    /\ mu = None
    /\ mu' = t
    /\ LET b == handler[t].bufnr
           s == sessions[b]
       IN IF Exists(b)
          THEN /\ sess' = [sess EXCEPT ![s] = cleanup(@)]
               /\ agent' = [agent EXCEPT ![s] =
                              IF cleanup(sess[s]).proc = "running" THEN @ ELSE NoAgent]
               /\ handler' = [Goto(t, "await_editor") EXCEPT ![t].s = s]
          ELSE /\ handler' = Finish(t, "NotFound")
               /\ UNCHANGED <<sess, agent>>
    /\ UNCHANGED <<sessions, wire, buffer, queue, calls, crashed, modes, mcp, perm, clientSide>>

\* append_text has run in the editor; the entry is deleted.
ACPStopDelete(t) ==
    /\ At(t, "Stop", "await_editor")
    /\ buffer' = appendToBuffer(handler[t].bufnr, "Connection closed.")
    /\ sessions' = delete(sessions, handler[t].bufnr)
    /\ handler' = Finish(t, "ok")
    /\ UNCHANGED <<mu, sess, agent, wire, queue, calls, crashed, modes, mcp, perm, clientSide>>

\* ------------------------------------------------------------ the agents

\* An agent subprocess exits on its own.
AgentExit(s) ==
    /\ ~crashed
    /\ Running(s)
    /\ sess' = [sess EXCEPT ![s].proc = "dead"]
    /\ agent' = [agent EXCEPT ![s] = NoAgent]
    /\ UNCHANGED <<mu, sessions, wire, buffer, handler, queue, calls, crashed, modes, mcp, perm, clientSide>>

\* The session object of a returning handler that nothing refers to any more:
\* it is in no table entry, no other handler holds the pointer, and no
\* subprocess of it is left running.
Unreachable(s, t) ==
    /\ s # None
    /\ \A b \in Bufs : sessions[b] # s
    /\ \A u \in Threads : u # t => handler[u].s # s
    /\ sess[s].proc # "running"

\* What set_mode does with the reply of its vim.rpcrequest: it stores the mode
\* id a successful SetMode returned and leaves the stored one after an error.
Reply(h) ==
    IF h.via = "req" /\ h.verb = "SetMode" /\ h.result \in ModeIds
    THEN [modes EXCEPT ![h.bufnr] = h.result]
    ELSE modes

\* A handler returns: its deferred Unlock runs, its goroutine ends and the
\* editor gets the reply; a session object only it referred to is garbage.
Return(t) ==
    /\ ~crashed
    /\ handler[t].pc = "ret"
    /\ mu' = IF mu = t THEN None ELSE mu
    /\ handler' = [handler EXCEPT ![t] = Idle]
    /\ modes' = Reply(handler[t])
    /\ LET s == handler[t].s
       IN IF Unreachable(s, t)
          THEN /\ sess' = [sess EXCEPT ![s] = NoSession]
               /\ agent' = [agent EXCEPT ![s] = NoAgent]
               /\ wire' = [wire EXCEPT ![s] = <<>>]
          ELSE UNCHANGED <<sess, agent, wire>>
    /\ UNCHANGED <<sessions, buffer, queue, calls, crashed, mcp, perm, clientSide>>

Next ==
    \/ \E verb \in Verbs, b \in Bufs : \E arg \in Args(verb) : rpcrequest(verb, b, arg)
    \/ \E verb \in Verbs, b \in Bufs : \E arg \in Args(verb) : rpcnotify(verb, b, arg)
    \/ runNotifications
    \/ \E t \in Threads : AcpNewSessionSpawn(t)
    \/ \E t \in Threads : AcpNewSessionInitialize(t)
    \/ \E t \in Threads : AcpNewSessionCreate(t)
    \/ \E t \in Threads : AcpNewSessionRegister(t)
    \/ \E t \in Threads : AcpSendPromptLookup(t)
    \/ \E t \in Threads : AcpSendPromptCall(t)
    \/ \E t \in Threads : AcpSendPromptAnswered(t)
    \/ \E t \in Threads : AcpSendPromptAborted(t)
    \/ \E t \in Threads : AcpCancelLookup(t)
    \/ \E t \in Threads : AcpCancelSend(t)
    \/ \E t \in Threads : AcpSetModeLookup(t)
    \/ \E t \in Threads : AcpSetModeCall(t)
    \/ \E t \in Threads : AcpSetModeAnswered(t)
    \/ \E t \in Threads : ACPStopCleanup(t)
    \/ \E t \in Threads : ACPStopDelete(t)
    \/ \E s \in SessIds : AgentExit(s)
    \/ \E t \in Threads : Return(t)

Spec == Init /\ [][Next]_vars

\* ------------------------------------------------------------ MCP negotiation

\* The variables of the session bridge, untouched by the two specifications below.
bridge == <<mu, sessions, sess, agent, wire, buffer, handler, queue, calls, crashed, modes>>

\* One round of the loop over opts.Mcp, which ranges over the map in any
\* order: the entry is translated and appended to mcpServers.
McpConvert(name) ==
    /\ mcp.pc = "convert"
    /\ name \in mcp.todo
    /\ LET srv == ConvertMcpConfigToMcpServer(name, mcp.opts[name])
       IN IF srv.kind = "panic"
          THEN mcp' = [mcp EXCEPT !.pc = "panic", !.name = name]
          ELSE mcp' = [mcp EXCEPT !.mcpServers = append(@, srv), !.todo = @ \ {name},
                                  !.name = name]
    /\ UNCHANGED <<bridge, perm, clientSide>>

\* The loop is over: the list is filtered by the advertised capabilities and
\* goes into the new-session request.
McpFilter ==
    /\ mcp.pc = "convert"
    /\ mcp.todo = {}
    /\ mcp' = [mcp EXCEPT !.pc = "sent", !.sent = Filter(mcp.mcpServers.items, mcp.caps)]
    /\ UNCHANGED <<bridge, perm, clientSide>>

McpInit ==
    /\ mu = None
    /\ sessions = [b \in Bufs |-> None]
    /\ sess = [s \in SessIds |-> NoSession]
    /\ agent = [s \in SessIds |-> NoAgent]
    /\ wire = [s \in SessIds |-> <<>>]
    /\ buffer = [b \in Bufs |-> <<>>]
    /\ handler = [t \in Threads |-> Idle]
    /\ queue = <<>>
    /\ calls = 0
    /\ crashed = FALSE
    /\ modes = [b \in Bufs |-> ""]
    /\ perm = NoPerm
    /\ fs = NoFs
    /\ upd = NoUpd
    /\ turn = NoTurn
    /\ glue = NoGlue
    /\ testAgent = NoTestAgent
    /\ \E opts \in OptsMcp, caps \in McpCapabilities : mcp = McpStarted(opts, caps)

McpNext ==
    \/ \E name \in ServerNames : McpConvert(name)
    \/ McpFilter

McpSpec == McpInit /\ [][McpNext]_vars

\* ------------------------------------------------------------ RequestPermission

\* The auto-approve branch answers at once.
RequestPermissionAuto ==
    /\ perm.pc = "called"
    /\ perm.autoApprove
    /\ perm' = [perm EXCEPT !.pc = "returned", !.outcome = AutoApprove(perm.options)]
    /\ UNCHANGED <<bridge, mcp, clientSide>>

\* Without auto-approve the menu is built and vim.uiSelect is called.
RequestPermissionMenu ==
    /\ perm.pc = "called"
    /\ ~perm.autoApprove
    /\ perm' = [perm EXCEPT !.pc = "ui", !.uiCalls = @ + 1]
    /\ UNCHANGED <<bridge, mcp, clientSide>>

\* vim.uiSelect returns: an error, or the choice, which is mapped back to an
\* option.  indexed records the position params.Options is read at (1-based
\* here, choice - 1 in the code); a read outside the list is a panic.
RequestPermissionChoice ==
    /\ perm.pc = "ui"
    /\ \E failed \in BOOLEAN, answer \in HostAnswers :
         LET choice == uiSelect(perm.options, answer)
             asked == [perm EXCEPT !.failed = failed, !.answer = answer]
             denied == Denied
         IN IF failed
            THEN perm' = [asked EXCEPT !.pc = "returned", !.outcome = Cancelled]
            ELSE IF OutOfRange(choice, Len(perm.options))
            THEN perm' = [asked EXCEPT !.pc = "returned", !.outcome = Cancelled,
                                       !.appended = Append(@, denied)]
            ELSE IF choice \notin 1..Len(perm.options)
            THEN perm' = [asked EXCEPT !.pc = "panic", !.indexed = <<choice>>]
            ELSE perm' = [asked EXCEPT
                            !.pc = "returned",
                            !.indexed = <<choice>>,
                            !.outcome = Selected(perm.options[choice]),
                            !.appended = Append(@, Granted(perm.options[choice]))]
    /\ UNCHANGED <<bridge, mcp, clientSide>>

PermInit ==
    /\ mu = None
    /\ sessions = [b \in Bufs |-> None]
    /\ sess = [s \in SessIds |-> NoSession]
    /\ agent = [s \in SessIds |-> NoAgent]
    /\ wire = [s \in SessIds |-> <<>>]
    /\ buffer = [b \in Bufs |-> <<>>]
    /\ handler = [t \in Threads |-> Idle]
    /\ queue = <<>>
    /\ calls = 0
    /\ crashed = FALSE
    /\ modes = [b \in Bufs |-> ""]
    /\ mcp = NoMcp
    /\ fs = NoFs
    /\ upd = NoUpd
    /\ turn = NoTurn
    /\ glue = NoGlue
    /\ testAgent = NoTestAgent
    /\ \E auto \in BOOLEAN, options \in OptionLists :
         perm = [NoPerm EXCEPT !.pc = "called", !.autoApprove = auto, !.options = options]

PermNext ==
    \/ RequestPermissionAuto
    \/ RequestPermissionMenu
    \/ RequestPermissionChoice

PermSpec == PermInit /\ [][PermNext]_vars

\* ------------------------------------------------------------ ReadTextFile, WriteTextFile

\* The bridge at rest, as the specifications of the client side leave it.
BridgeAtRest ==
    /\ mu = None
    /\ sessions = [b \in Bufs |-> None]
    /\ sess = [s \in SessIds |-> NoSession]
    /\ agent = [s \in SessIds |-> NoAgent]
    /\ wire = [s \in SessIds |-> <<>>]
    /\ buffer = [b \in Bufs |-> <<>>]
    /\ handler = [t \in Threads |-> Idle]
    /\ queue = <<>>
    /\ calls = 0
    /\ crashed = FALSE
    /\ modes = [b \in Bufs |-> ""]
    /\ mcp = NoMcp
    /\ perm = NoPerm

\* Both callbacks start alike: a path that is not absolute is refused, else
\* the host is asked for the buffer of that name.
Lookup(f) ==
    IF ~IsAbs(f.path)
    THEN {[f EXCEPT !.pc = "returned", !.err = "InvalidPath"]}
    ELSE {[f EXCEPT !.pc = IF HasBuffer(bufnr(reply)) THEN "buffer" ELSE "disk",
                    !.buf = bufnr(reply), !.reported = reply.result,
                    !.touched = @ \cup {"bufnr"}] : reply \in BufnrReplies}

ReadTextFileLookup ==
    /\ fs.pc = "called"
    /\ fs.op = "read"
    /\ fs' \in Lookup(fs)
    /\ fs.wrote # <<>> => (fs'.reported = fs.reported /\ fs'.buf = fs.buf)
    /\ UNCHANGED <<bridge, testAgent, mcp, perm, upd, turn, glue>>

WriteTextFileLookup ==
    /\ fs.pc = "called"
    /\ fs.op = "write"
    /\ fs' \in Lookup(fs)
    /\ UNCHANGED <<bridge, testAgent, mcp, perm, upd, turn, glue>>

\* The content comes from the lines of the open buffer.
ReadTextFileBuffer ==
    /\ fs.pc = "buffer"
    /\ fs.op = "read"
    /\ \E failed \in BOOLEAN :
         LET r == ReadFromBuffer(fs.bufs[fs.buf.buf], fs.line, fs.limit)
             done == [fs EXCEPT !.pc = "returned", !.touched = @ \cup {"BufferLines"}]
         IN IF failed
            THEN fs' = [done EXCEPT !.err = "BufferLinesError"]
            ELSE fs' = [done EXCEPT
                          !.result = r.content,
                          !.chat = Confirm(@, "[Read %s (%d bytes) from buffer]",
                                           fs.path, Len(r.content))]
    /\ UNCHANGED <<bridge, testAgent, mcp, perm, upd, turn, glue>>

\* The content comes from the file.
ReadTextFileDisk ==
    /\ fs.pc = "disk"
    /\ fs.op = "read"
    /\ LET done == [fs EXCEPT !.pc = "returned", !.touched = @ \cup {"ReadFile"}]
       IN IF fs.disk[fs.path] = <<>>
          THEN fs' = [done EXCEPT !.err = "ReadError"]
          ELSE LET r == ReadFromDisk(fs.disk[fs.path][1], fs.line, fs.limit)
               IN IF r.panic
                  THEN fs' = [done EXCEPT !.pc = "panic"]
                  ELSE fs' = [done EXCEPT
                                !.result = r.content,
                                !.chat = Confirm(@, "[Read %s (%d bytes)]",
                                                 fs.path, Len(r.content))]
    /\ UNCHANGED <<bridge, testAgent, mcp, perm, upd, turn, glue>>

\* The lines of the open buffer are replaced by the lines of the content.
WriteTextFileBuffer ==
    /\ fs.pc = "buffer"
    /\ fs.op = "write"
    /\ \E failed \in BOOLEAN :
         LET done == [fs EXCEPT !.pc = "returned", !.touched = @ \cup {"SetBufferLines"}]
         IN IF failed
            THEN fs' = [done EXCEPT !.err = "SetBufferLinesError"]
            ELSE fs' = [done EXCEPT
                          !.bufs[fs.buf.buf] = Split(fs.content),
                          !.chat = Confirm(@, "[Wrote %d bytes to buffer %s]",
                                           fs.path, Len(fs.content))]
    /\ UNCHANGED <<bridge, testAgent, mcp, perm, upd, turn, glue>>

\* The directory is created where it is missing, then the file is written.
WriteTextFileDisk ==
    /\ fs.pc = "disk"
    /\ fs.op = "write"
    /\ \E mkdirFailed \in {f \in BOOLEAN : f => Dir(fs.path) \notin fs.dirs},
          writeFailed \in BOOLEAN :
         LET tried == [fs EXCEPT !.pc = "returned", !.touched = @ \cup {"MkdirAll"}]
             made == [tried EXCEPT !.dirs = @ \cup {Dir(fs.path)},
                                   !.touched = @ \cup {"WriteFile"}]
         IN IF mkdirFailed
            THEN fs' = [tried EXCEPT !.err = "MkdirError"]
            ELSE IF writeFailed
            THEN fs' = [made EXCEPT !.err = "WriteError"]
            ELSE fs' = [made EXCEPT
                          !.disk[fs.path] = <<fs.content>>,
                          !.chat = Confirm(@, "[Wrote %d bytes to %s]",
                                           fs.path, Len(fs.content))]
    /\ UNCHANGED <<bridge, testAgent, mcp, perm, upd, turn, glue>>

\* The agent reads back what it has just written: a ReadTextFile of the same
\* path without start line and limit follows a WriteTextFile that succeeded.
\* The editor's buffers are the same for both, so bufnr() answers the read
\* as it answered the write.
ReadTextFileAfterWrite ==
    /\ fs.pc = "returned"
    /\ fs.op = "write"
    /\ fs.err = NoError
    /\ fs' = [fs EXCEPT !.pc = "called", !.op = "read", !.line = Nil, !.limit = Nil,
                        !.content = <<>>, !.chat = <<>>, !.touched = {},
                        !.wrote = <<fs.content>>]
    /\ UNCHANGED <<bridge, testAgent, mcp, perm, upd, turn, glue>>

\* One request: a read of some stored content, held by the file and by the
\* buffers alike, or a write of some content over what was there.
FileInit ==
    /\ BridgeAtRest
    /\ upd = NoUpd
    /\ turn = NoTurn
    /\ glue = NoGlue
    /\ testAgent = NoTestAgent
    /\ \E path \in Paths, content \in Contents, present \in BOOLEAN :
         \/ \E line \in LineArgs, limit \in LimitArgs :
              fs = [NoFs EXCEPT
                      !.pc = "called", !.op = "read", !.path = path,
                      !.line = line, !.limit = limit,
                      !.disk = [p \in DOMAIN @ |-> IF present THEN <<content>> ELSE <<>>],
                      !.bufs = [b \in EdBufs |-> Split(content)]]
         \/ fs = [NoFs EXCEPT
                    !.pc = "called", !.op = "write", !.path = path, !.content = content,
                    !.disk = [p \in DOMAIN @ |-> IF present THEN <<OldContent>> ELSE <<>>],
                    !.bufs = [b \in EdBufs |-> OldLines]]

FileNext ==
    \/ ReadTextFileLookup
    \/ ReadTextFileBuffer
    \/ ReadTextFileDisk
    \/ WriteTextFileLookup
    \/ WriteTextFileBuffer
    \/ WriteTextFileDisk
    \/ ReadTextFileAfterWrite

FileSpec == FileInit /\ [][FileNext]_vars

\* ------------------------------------------------------------ SessionUpdate

\* One notification is rendered and the handler returns nil; the host answers
\* each vim.text.diff call of the rendering.
SessionUpdate ==
    /\ upd.pc = "called"
    /\ \E answers \in [1..Len(upd.update.Content) -> DiffAnswers] :
         upd' = [upd EXCEPT !.pc = "returned", !.err = NoError,
                            !.appended = Rendered(upd.update, answers)]
    /\ UNCHANGED <<bridge, testAgent, mcp, perm, fs, turn, glue>>

UpdateInit ==
    /\ BridgeAtRest
    /\ fs = NoFs
    /\ turn = NoTurn
    /\ glue = NoGlue
    /\ testAgent = NoTestAgent
    /\ \E u \in Updates : upd = [NoUpd EXCEPT !.pc = "called", !.update = u]

UpdateNext == SessionUpdate

UpdateSpec == UpdateInit /\ [][UpdateNext]_vars

\* ------------------------------------------------------------ a prompt turn, end to end

\* The agent writes the next message of its turn; after a permission request
\* it waits for the answer before it goes on.
AgentWrite(s) ==
    /\ turn.pc = "run"
    /\ turn.script[s] # <<>>
    /\ ~turn.waiting[s]
    /\ LET m == Head(turn.script[s])
       IN turn' = [turn EXCEPT
                     !.script[s] = Tail(@),
                     !.pipe[s] = Append(@, m),
                     !.waiting[s] = (m.kind = "permission"),
                     !.emitted[s] = IF m.kind = "chunk" THEN Append(@, m.text) ELSE @]
    /\ UNCHANGED <<bridge, testAgent, mcp, perm, fs, upd, glue>>

\* A call of the host into the editor, queued on the host's one RPC channel.
Request(s, kind, text) == [s |-> s, kind |-> kind, text |-> text]

\* The connection of session s takes the next message of its agent, one at a
\* time and in order: a chunk goes through SessionUpdate to appendToBuffer,
\* whose vim.api.ExecLua waits for the editor to have run append_text; a
\* permission request goes through RequestPermission to vim.uiSelect; the
\* response lets Prompt, and with it AcpSendPrompt, return.
ConnectionReceive(s) ==
    /\ turn.pc = "run"
    /\ turn.host[s] = "idle"
    /\ turn.pipe[s] # <<>>
    /\ LET m == Head(turn.pipe[s])
           taken == [turn EXCEPT !.pipe[s] = Tail(@)]
       IN CASE m.kind = "chunk" ->
                 turn' = [taken EXCEPT !.host[s] = "await_append",
                                       !.requests = Append(@, Request(s, "append_text", m))]
            [] m.kind = "permission" ->
                 turn' = [taken EXCEPT !.host[s] = "await_choice",
                                       !.requests = Append(@, Request(s, "inputlist", m))]
            [] m.kind = "end_turn" ->
                 turn' = [taken EXCEPT !.host[s] = "returned"]
    /\ UNCHANGED <<bridge, testAgent, mcp, perm, fs, upd, glue>>

\* The editor's loop takes the next call of the host.  append_text hands the
\* buffer change to vim.schedule and returns; inputlist() opens its prompt
\* and the editor stays in it until the user has answered.
EditorServe ==
    /\ turn.pc = "run"
    /\ turn.mode = "loop"
    /\ turn.requests # <<>>
    /\ LET r == Head(turn.requests)
           taken == [turn EXCEPT !.requests = Tail(@)]
       IN IF r.kind = "append_text"
          THEN turn' = [taken EXCEPT !.scheduled = Append(@, r),
                                     !.host[r.s] = "idle"]
          ELSE turn' = [taken EXCEPT !.mode = "inputlist", !.asking = r.s]
    /\ UNCHANGED <<bridge, testAgent, mcp, perm, fs, upd, glue>>

\* The editor's loop runs the oldest function given to vim.schedule: the text
\* goes into the buffer.
EditorScheduled ==
    /\ turn.pc = "run"
    /\ turn.mode = "loop"
    /\ turn.scheduled # <<>>
    /\ LET r == Head(turn.scheduled)
       IN turn' = [turn EXCEPT !.scheduled = Tail(@),
                               !.buffer[r.s] = Append(@, r.text)]
    /\ UNCHANGED <<bridge, testAgent, mcp, perm, fs, upd, glue>>

\* The user answers the prompt of inputlist(); RequestPermission appends its
\* marker to the buffer and answers the agent, which goes on with its turn.
UserAnswer ==
    /\ turn.pc = "run"
    /\ turn.mode = "inputlist"
    /\ LET s == turn.asking
       IN turn' = [turn EXCEPT !.mode = "loop", !.asking = 0,
                               !.host[s] = "await_append",
                               !.waiting[s] = FALSE,
                               !.requests = Append(@, Request(s, "append_text",
                                                [kind |-> "marker", text |-> <<>>]))]
    /\ UNCHANGED <<bridge, testAgent, mcp, perm, fs, upd, glue>>

\* Both sessions are live and each agent has received a prompt.
TurnInit ==
    /\ BridgeAtRest
    /\ fs = NoFs
    /\ upd = NoUpd
    /\ glue = NoGlue
    /\ testAgent = NoTestAgent
    /\ \E script \in [TurnSessions -> UNION {Scripts(s) : s \in TurnSessions}] :
         /\ \A s \in TurnSessions : script[s] \in Scripts(s)
         /\ turn = [NoTurn EXCEPT !.pc = "run", !.script = script]

TurnNext ==
    \/ \E s \in TurnSessions : AgentWrite(s)
    \/ \E s \in TurnSessions : ConnectionReceive(s)
    \/ EditorServe
    \/ EditorScheduled
    \/ UserAnswer

TurnSpec == TurnInit /\ [][TurnNext]_vars

\* Agents, goroutines and the editor's loop keep running; the user is under
\* no obligation to answer a prompt.
FairTurnSpec ==
    /\ TurnSpec
    /\ \A s \in TurnSessions : WF_vars(AgentWrite(s)) /\ WF_vars(ConnectionReceive(s))
    /\ WF_vars(EditorServe)
    /\ WF_vars(EditorScheduled)

\* ---- the editor glue's commands and the host's notification handlers

\* ensure_rpc_host: the recorded job, or a new host process whose job id is
\* recorded; the new process starts with an empty table and nothing received.
ensure_rpc_host(g) ==
    IF g.job # NoJob THEN g
    ELSE [g EXCEPT !.job = g.started + 1,
                   !.serving = g.started + 1,
                   !.started = @ + 1,
                   !.procs = @ \cup {g.started + 1},
                   !.host = {},
                   !.sent = <<>>]

\* M.start: ensure_rpc_host, a new buffer, the session entry, then the
\* ACPStart notification; the function returns without an answer.
start ==
    /\ glue.pc = "run"
    /\ glue.cmds < MaxGlueCmds
    /\ glue.created < NumGlueBufs
    /\ glue.job = NoJob => glue.started < MaxJobs
    /\ LET b == glue.created + 1
           g == ensure_rpc_host(glue)
       IN glue' = [g EXCEPT !.created = b,
                            !.sessions = @ \cup {b},
                            !.served[b] = g.job,
                            !.sent = Append(@, [verb |-> "ACPStart", buf |-> b]),
                            !.cmds = @ + 1]
    /\ UNCHANGED <<bridge, testAgent, mcp, perm, fs, upd, turn>>

\* send_prompt, the prompt callback of a buffer that set_and_show_prompt_buf
\* prepared: nothing is sent without a host job, a session entry or a text.
send_prompt ==
    /\ glue.pc = "run"
    /\ glue.cmds < MaxGlueCmds
    /\ \E b \in glue.shown, text \in PromptTexts :
         glue' = [glue EXCEPT
                    !.sent = IF glue.job # NoJob /\ b \in glue.sessions /\ text # ""
                             THEN Append(@, [verb |-> "ACPSendPrompt", buf |-> b])
                             ELSE @,
                    !.cmds = @ + 1]
    /\ UNCHANGED <<bridge, testAgent, mcp, perm, fs, upd, turn>>

\* M.cancel, callable for any buffer: nothing is sent without a host job or
\* a session entry.
cancel ==
    /\ glue.pc = "run"
    /\ glue.cmds < MaxGlueCmds
    /\ \E b \in 1..glue.created :
         glue' = [glue EXCEPT
                    !.sent = IF glue.job # NoJob /\ b \in glue.sessions
                             THEN Append(@, [verb |-> "ACPCancel", buf |-> b])
                             ELSE @,
                    !.cmds = @ + 1]
    /\ UNCHANGED <<bridge, testAgent, mcp, perm, fs, upd, turn>>

\* set_mode, the buffer's AcpSetMode command: a request under pcall, so a
\* missing job, a missing session or the agent's refusal comes back to the
\* function; the host prints the agent's refusal as well.
set_mode ==
    /\ glue.pc = "run"
    /\ glue.cmds < MaxGlueCmds
    /\ \E b \in glue.shown, outcome \in Outcomes :
         LET kept == b \in glue.sessions
             failed == glue.job = NoJob \/ b \notin glue.host \/ outcome = "error"
             printed == glue.job # NoJob /\ b \in glue.host /\ outcome = "error"
         IN  glue' = [glue EXCEPT
                        !.failures = IF failed
                                     THEN @ \cup {Failure("ACPSetMode", b, TRUE, FALSE,
                                                          printed, kept)}
                                     ELSE @,
                        !.cmds = @ + 1]
    /\ UNCHANGED <<bridge, testAgent, mcp, perm, fs, upd, turn>>

\* stop, the buffer's AcpStop command and its BufDelete callback: the entry
\* is dropped whatever the host answers, and with the last entry jobstop is
\* called and the job id forgotten; the host loses what it had not served
\* yet, and its exit callback runs later.
stop ==
    /\ glue.pc = "run"
    /\ glue.cmds < MaxGlueCmds
    /\ \E b \in glue.shown :
         LET tracked == b \in glue.sessions
             asked == tracked /\ glue.job # NoJob
             failed == asked /\ b \notin glue.host
             left == glue.sessions \ {b}
             last == asked /\ left = {}
         IN  glue' = [glue EXCEPT
                        !.sessions = IF tracked THEN left ELSE @,
                        !.host = IF last THEN {} ELSE IF asked THEN @ \ {b} ELSE @,
                        !.job = IF last THEN NoJob ELSE @,
                        !.stopped = IF last THEN @ \cup {glue.job} ELSE @,
                        !.sent = IF last THEN <<>> ELSE @,
                        !.failures = IF failed
                                     THEN @ \cup {Failure("ACPStop", b, TRUE, FALSE,
                                                          FALSE, TRUE)}
                                     ELSE @,
                        !.cmds = @ + 1]
    /\ UNCHANGED <<bridge, testAgent, mcp, perm, fs, upd, turn>>

\* The host serves the ACPStart notification at the head of its queue: on
\* success set_and_show_prompt_buf runs, which stops at its first statement
\* when the editor has no entry for the buffer, and the table gets the entry; every
\* failure is a returned error of a notification, which has no caller, and
\* the glue is not told.
HostACPStart ==
    /\ glue.pc = "run"
    /\ glue.sent # <<>>
    /\ Head(glue.sent).verb = "ACPStart"
    /\ \E outcome \in Outcomes :
         LET b == Head(glue.sent).buf
             failed == b \in glue.host \/ outcome = "error"
         IN  glue' = [glue EXCEPT
                        !.sent = Tail(@),
                        !.host = IF failed THEN @ ELSE @ \cup {b},
                        !.shown = IF failed \/ b \notin glue.sessions THEN @
                                  ELSE @ \cup {b},
                        !.failures = IF failed
                                     THEN @ \cup {Failure("ACPStart", b, FALSE, FALSE,
                                                          FALSE, b \in glue.sessions)}
                                     ELSE @]
    /\ UNCHANGED <<bridge, testAgent, mcp, perm, fs, upd, turn>>

\* The host serves an ACPSendPrompt notification: the agent's error is
\* written into the buffer, a missing table entry is only returned.
HostACPSendPrompt ==
    /\ glue.pc = "run"
    /\ glue.sent # <<>>
    /\ Head(glue.sent).verb = "ACPSendPrompt"
    /\ \E outcome \in Outcomes :
         LET b == Head(glue.sent).buf
             exists == b \in glue.host
             failed == ~exists \/ outcome = "error"
         IN  glue' = [glue EXCEPT
                        !.sent = Tail(@),
                        !.failures = IF failed
                                     THEN @ \cup {Failure("ACPSendPrompt", b, FALSE, exists,
                                                          FALSE, b \in glue.sessions)}
                                     ELSE @]
    /\ UNCHANGED <<bridge, testAgent, mcp, perm, fs, upd, turn>>

\* The host serves an ACPCancel notification: the agent's error is printed,
\* a missing table entry is only returned.
HostACPCancel ==
    /\ glue.pc = "run"
    /\ glue.sent # <<>>
    /\ Head(glue.sent).verb = "ACPCancel"
    /\ \E outcome \in Outcomes :
         LET b == Head(glue.sent).buf
             exists == b \in glue.host
             failed == ~exists \/ outcome = "error"
         IN  glue' = [glue EXCEPT
                        !.sent = Tail(@),
                        !.failures = IF failed
                                     THEN @ \cup {Failure("ACPCancel", b, FALSE, FALSE,
                                                          exists, b \in glue.sessions)}
                                     ELSE @]
    /\ UNCHANGED <<bridge, testAgent, mcp, perm, fs, upd, turn>>

\* on_exit of host job j, run by the editor's loop once the process has
\* ended, after jobstop or on its own: whatever job is recorded by then, the
\* job id and all session entries are cleared.
on_exit(j) ==
    /\ glue.pc = "run"
    /\ j \in glue.procs
    /\ glue' = [glue EXCEPT !.procs = @ \ {j},
                            !.stopped = @ \ {j},
                            !.job = NoJob,
                            !.sessions = {},
                            !.host = IF j = glue.serving THEN {} ELSE @,
                            !.sent = IF j = glue.serving THEN <<>> ELSE @]
    /\ UNCHANGED <<bridge, testAgent, mcp, perm, fs, upd, turn>>

\* The editor has loaded the glue and the user has issued no command yet.
GlueInit ==
    /\ BridgeAtRest
    /\ fs = NoFs
    /\ upd = NoUpd
    /\ turn = NoTurn
    /\ glue = [NoGlue EXCEPT !.pc = "run"]
    /\ testAgent = NoTestAgent

GlueNext ==
    \/ start
    \/ send_prompt
    \/ cancel
    \/ set_mode
    \/ stop
    \/ HostACPStart
    \/ HostACPSendPrompt
    \/ HostACPCancel
    \/ \E j \in Jobs : on_exit(j)

GlueSpec == GlueInit /\ [][GlueNext]_vars

\* ------------------------------------------------------------ test agent steps

\* AbortController.abort on controller c, null included (the ?. of the code).
Abort(aborted, c) == IF c = NoController THEN aborted ELSE aborted \cup {c}

\* prompt's catch block: the signal looked at is the one of the controller the
\* session holds now, which need not be the one this prompt created; reading
\* .signal of null throws a TypeError, and both that and the rethrown error
\* make the request fail.
CatchResult(pendingPrompt, aborted) ==
    IF pendingPrompt = NoController THEN "error"
    ELSE IF pendingPrompt \in aborted THEN "cancelled"
    ELSE "error"

\* prompt, up to the first await of the handler: the controller the session
\* holds is aborted and replaced by a new one.
TestAgentPrompt(p) ==
    /\ testAgent.pc = "run"
    /\ testAgent.prompts[p].pc = "none"
    /\ \A q \in Prompts : q < p => testAgent.prompts[q].pc # "none"
    /\ \E kind \in PromptKinds :
         testAgent' = [testAgent EXCEPT
                         !.aborted = Abort(@, testAgent.pendingPrompt),
                         !.pendingPrompt = p,
                         !.prompts[p] = [pc |-> "handling", rest |-> Awaits(kind),
                                         result |-> "none"]]
    /\ UNCHANGED <<bridge, mcp, perm, fs, upd, turn, glue>>

\* The await prompt p is suspended at completes and the handler runs to its
\* next await.  A call of the connection is answered; a timer of simulateDelay
\* fires and rejects when the prompt's own signal is aborted by then.  The
\* rejection of the second delay is caught inside the handler, which reports a
\* failed tool call and returns normally.  After the last await prompt resets
\* pendingPrompt, whatever controller it holds, and answers end_turn.
TestAgentResume(p) ==
    /\ testAgent.pc = "run"
    /\ testAgent.prompts[p].pc = "handling"
    /\ LET this == testAgent.prompts[p]
           at == Head(this.rest)
           rejected == at \in {"simulateDelay", "simulateDelayInTry"} /\ p \in testAgent.aborted
       IN  \E allowed \in BOOLEAN :
             LET rest == IF rejected THEN CatchAwaits
                         ELSE IF at = "requestPermission"
                              THEN (IF allowed THEN AllowedAwaits ELSE DeniedAwaits)
                              ELSE Tail(this.rest)
             IN  IF rejected /\ at = "simulateDelay"
                 THEN testAgent' = [testAgent EXCEPT
                                      !.prompts[p] =
                                          [pc |-> "done", rest |-> <<>>,
                                           result |-> CatchResult(testAgent.pendingPrompt,
                                                                  testAgent.aborted)]]
                 ELSE IF rest = <<>>
                 THEN testAgent' = [testAgent EXCEPT
                                      !.pendingPrompt = NoController,
                                      !.prompts[p] = [pc |-> "done", rest |-> <<>>,
                                                      result |-> "end_turn"]]
                 ELSE testAgent' = [testAgent EXCEPT !.prompts[p].rest = rest]
    /\ UNCHANGED <<bridge, mcp, perm, fs, upd, turn, glue>>

\* cancel: the controller the session holds, if any, is aborted.  A cancel
\* that finds null or an aborted controller changes nothing and is left out.
TestAgentCancel ==
    /\ testAgent.pc = "run"
    /\ testAgent.pendingPrompt # NoController
    /\ testAgent.pendingPrompt \notin testAgent.aborted
    /\ testAgent' = [testAgent EXCEPT !.aborted = Abort(@, testAgent.pendingPrompt)]
    /\ UNCHANGED <<bridge, mcp, perm, fs, upd, turn, glue>>

\* A client has created one session of the test agent.
TestAgentInit ==
    /\ BridgeAtRest
    /\ fs = NoFs
    /\ upd = NoUpd
    /\ turn = NoTurn
    /\ glue = NoGlue
    /\ testAgent = [NoTestAgent EXCEPT !.pc = "run"]

TestAgentNext ==
    \/ \E p \in Prompts : TestAgentPrompt(p)
    \/ \E p \in Prompts : TestAgentResume(p)
    \/ TestAgentCancel

TestAgentSpec == TestAgentInit /\ [][TestAgentNext]_vars

\* A goroutine whose pending call can fail (scope cancelled, transport severed)
\* is eventually scheduled; agents are under no obligation to answer.
FairSpec == Spec /\ \A t \in Threads : WF_vars(AcpSendPromptAborted(t))

\* The handler holding the mutex moves when what it waits for arrives: the
\* agent answers initialize and session/new (or the call fails), the editor
\* answers the ExecLua call, and a handler that has finished returns.
MutexHolderStep(t) ==
    /\ mu = t
    /\ \/ AcpNewSessionInitialize(t)
       \/ AcpNewSessionCreate(t)
       \/ AcpNewSessionRegister(t)
       \/ ACPStopDelete(t)
       \/ Return(t)

\* The agents and the editor answer the handler that holds the mutex, and a
\* goroutine that can run is scheduled.
AnsweredSpec == Spec /\ \A t \in Threads : WF_vars(MutexHolderStep(t))

\* ------------------------------------------------------------ properties

\* The session objects of buffer b that hold a protocol session id.
LiveFor(b) == {s \in SessIds : sess[s].bufnr = b /\ sess[s].sessionID # 0}

\* Handler t moves from program counter "from" to "to" in this step.
Moves(t, verb, from, to) ==
    /\ handler[t].verb = verb
    /\ handler[t].pc = from
    /\ handler'[t].verb = verb
    /\ handler'[t].pc = to

\* How many times x occurs in the sequence q.
Count(q, x) == Cardinality({i \in 1..Len(q) : q[i] = x})

\* C1: every buffer id has at most one session at any instant, two NewSession
\* calls for one buffer never both get past the membership check, and a call
\* that finds the entry present returns AlreadyExists without spawning.
C1_AtMostOneSession ==
    /\ [](\A b \in Bufs :
            /\ Cardinality(LiveFor(b)) <= 1
            /\ Exists(b) => LiveFor(b) \subseteq {sessions[b]}
            /\ \A t, u \in Threads :
                 (/\ t # u
                  /\ handler[t].verb = "NewSession" /\ handler[u].verb = "NewSession"
                  /\ handler[t].bufnr = b /\ handler[u].bufnr = b)
                 => ~(handler[t].s # None /\ handler[u].s # None))
    /\ [][\A t \in Threads :
            (handler[t].verb = "NewSession" /\ handler'[t].result = "AlreadyExists"
             /\ handler[t].result # "AlreadyExists")
            => (Exists(handler[t].bufnr) /\ UNCHANGED <<sessions, sess, agent, wire>>)]_vars

C1_Witness ==
    \E t \in Threads :
        /\ handler[t].verb = "NewSession"
        /\ handler[t].result = "AlreadyExists"
        /\ Exists(handler[t].bufnr)
        /\ Running(sessions[handler[t].bufnr])

\* Two NewSession calls for one buffer are in progress at once.
NewSessionRace ==
    \E t, u \in Threads :
        /\ handler[t].verb = "NewSession" /\ handler[u].verb = "NewSession"
        /\ handler[t].bufnr = handler[u].bufnr
        /\ handler[t].pc = "start" /\ handler[u].pc = "await_new"

\* C2: when NewSession returns after a failed initialize or new-session step,
\* the table has no entry for the buffer (so a later NewSession is not
\* rejected), no entry refers to the session, and its subprocess is dead.
C2_NewSessionRollback ==
    \A t \in Threads :
        (/\ handler[t].verb = "NewSession"
         /\ handler[t].pc = "ret"
         /\ handler[t].result \in {"InitializeError", "NewSessionError"})
        => /\ ~Exists(handler[t].bufnr)
           /\ \A b \in Bufs : sessions[b] # handler[t].s
           /\ sess[handler[t].s].proc = "dead"
           /\ sess[handler[t].s].scope = "cancelled"

C2_Witness ==
    \E t \in Threads :
        /\ handler[t].verb = "NewSession"
        /\ handler[t].pc = "ret"
        /\ handler[t].result = "NewSessionError"
        /\ Len(wire[handler[t].s]) = 2

\* C3: the manager mutex is never held by a handler that is blocked waiting
\* for an agent response or an editor call.
C3_MutexNotHeldWhileBlocked ==
    \A t \in Threads :
        mu = t => handler[t].pc \notin {"await_init", "await_new", "await_editor"}

\* C4: a Cancel issued for a buffer whose prompt is in flight does not wait for
\* the prompt to resolve: the host is free to run it while the prompt is
\* outstanding.
C4_CancelDeliveredDuringPrompt ==
    \A t \in Threads, i \in 1..Len(queue) :
        (/\ handler[t].verb = "SendPrompt"
         /\ handler[t].pc = "await_prompt"
         /\ agent[handler[t].s].pending > 0
         /\ queue[i].verb = "Cancel"
         /\ queue[i].bufnr = handler[t].bufnr)
        => NotifyWorkerIdle

\* C5: a buffer id is a key of the table only while its session is live or is
\* being torn down.
C5_KeyOnlyWhileLive ==
    \A b \in Bufs :
        Exists(b) =>
            \/ Running(sessions[b])
            \/ \E t \in Threads : handler[t].verb = "Stop" /\ handler[t].bufnr = b
                                  /\ handler[t].pc \in {"await_editor", "ret"}

\* C6: a successful Stop cancels the scope and kills the subprocess, appends
\* exactly one "Connection closed." to the buffer, and removes the entry (so a
\* later NewSession is accepted); Stop without a session returns NotFound and
\* changes nothing.
C6_StopPostcondition ==
    [][\A t \in Threads :
         LET b == handler[t].bufnr
             closed == "Connection closed."
         IN /\ Moves(t, "Stop", "start", "await_editor") =>
                 /\ Exists(b)
                 /\ sess'[sessions[b]].scope = "cancelled"
                 /\ sess'[sessions[b]].proc = "dead"
                 /\ UNCHANGED <<sessions, buffer>>
            /\ Moves(t, "Stop", "await_editor", "ret") =>
                 /\ handler'[t].result = "ok"
                 /\ sess'[handler[t].s].scope = "cancelled"
                 /\ sess'[handler[t].s].proc = "dead"
                 /\ buffer' = [buffer EXCEPT ![b] = Append(@, closed)]
                 /\ Count(buffer'[b], closed) = Count(buffer[b], closed) + 1
                 /\ sessions'[b] = None
                 /\ \A c \in Bufs \ {b} : sessions'[c] = sessions[c]
            /\ Moves(t, "Stop", "start", "ret") =>
                 /\ handler'[t].result = "NotFound"
                 /\ ~Exists(b)
                 /\ UNCHANGED <<sessions, sess, agent, wire, buffer>>]_vars

C6_Witness ==
    \E t \in Threads :
        /\ handler[t].verb = "Stop"
        /\ handler[t].pc = "ret"
        /\ handler[t].result = "ok"
        /\ Count(buffer[handler[t].bufnr], "Connection closed.") = 1

\* Stop has run cleanup on the session whose prompt handler t is awaiting.
StoppedWhileAwaiting(t) ==
    /\ handler[t].verb = "SendPrompt"
    /\ handler[t].pc = "await_prompt"
    /\ \E u \in Threads :
         /\ handler[u].verb = "Stop"
         /\ handler[u].s = handler[t].s
         /\ handler[u].pc \in {"await_editor", "ret"}

\* C7: a SendPrompt that is awaiting the agent when Stop is called on its
\* session eventually returns with an error, whether or not the agent answers.
C7_StopAbortsPrompt ==
    \A t \in Threads :
        StoppedWhileAwaiting(t) ~>
            (handler[t].pc = "ret" /\ handler[t].result = "TransportFailure")

C7_Witness ==
    \E t \in Threads :
        /\ handler[t].verb = "SendPrompt"
        /\ handler[t].result = "TransportFailure"
        /\ sess[handler[t].s].scope = "cancelled"
        /\ \A b \in Bufs : sessions[b] # handler[t].s

\* C8: a prompt in flight on session A does not keep a SendPrompt or Cancel
\* issued for another registered session B from being run and forwarded.
C8_OtherSessionNotBlocked ==
    \A t \in Threads, i \in 1..Len(queue) :
        (/\ handler[t].verb = "SendPrompt"
         /\ handler[t].pc = "await_prompt"
         /\ agent[handler[t].s].pending > 0
         /\ queue[i].verb \in {"SendPrompt", "Cancel"}
         /\ queue[i].bufnr # handler[t].bufnr
         /\ Exists(queue[i].bufnr)
         /\ Running(sessions[queue[i].bufnr]))
        => NotifyWorkerIdle

\* C9: every agent has at most one prompt request outstanding, and at most one
\* SendPrompt handler per session is past its lookup.
C9_OnePromptInFlight ==
    /\ \A s \in SessIds : agent[s].pending <= 1
    /\ \A t, u \in Threads :
         (/\ t # u
          /\ handler[t].verb = "SendPrompt" /\ handler[u].verb = "SendPrompt"
          /\ handler[t].s # None)
         => handler[u].s # handler[t].s

\* A second SendPrompt for a buffer was issued while the first is outstanding.
C9_Witness ==
    \E t \in Threads, i \in 1..Len(queue) :
        /\ handler[t].verb = "SendPrompt"
        /\ handler[t].pc = "await_prompt"
        /\ agent[handler[t].s].pending = 1
        /\ queue[i].verb = "SendPrompt"
        /\ queue[i].bufnr = handler[t].bufnr
        /\ queue[i].arg # ""

\* C10: SendPrompt with empty text returns EmptyPrompt, SendPrompt with text
\* for a buffer without session returns NotFound, and in both cases nothing is
\* sent to an agent, nothing is appended to a buffer and the table is unchanged.
C10_SendPromptRejects ==
    [][\A t \in Threads :
         (/\ handler[t].verb = "SendPrompt"
          /\ handler[t].pc = "start"
          /\ handler'[t] # handler[t])
         => /\ handler[t].arg = "" =>
                 (handler'[t].pc = "ret" /\ handler'[t].result = "EmptyPrompt")
            /\ (handler[t].arg # "" /\ ~Exists(handler[t].bufnr)) =>
                 (handler'[t].pc = "ret" /\ handler'[t].result = "NotFound")
            /\ handler'[t].pc = "ret" =>
                 /\ handler'[t].result \in {"EmptyPrompt", "NotFound"}
                 /\ UNCHANGED <<sessions, sess, agent, wire, buffer, mu>>]_vars

C10_Witness ==
    \E t \in Threads :
        /\ handler[t].verb = "SendPrompt"
        /\ handler[t].result = "EmptyPrompt"
        /\ Exists(handler[t].bufnr)
        /\ Running(sessions[handler[t].bufnr])

\* The texts AcpSendPrompt renders for a failed prompt call.
ErrorLines == {"Error: request", "Error: transport"}

\* C11: when the prompt call of SendPrompt fails (RPC error answered by the
\* agent, severed transport or cancelled scope) exactly one text beginning with
\* "Error" is appended to the caller's buffer, no other buffer changes, and the
\* error is returned; when the call succeeds nothing is appended and a stop
\* reason is returned.
C11_PromptErrorRendered ==
    [][\A t \in Threads :
         Moves(t, "SendPrompt", "await_prompt", "ret") =>
           LET b == handler[t].bufnr
               res == handler'[t].result
           IN /\ res \in {"ProtocolError", "TransportFailure", "end_turn", "cancelled"}
              /\ res = "ProtocolError" =>
                    buffer' = [buffer EXCEPT ![b] = Append(@, "Error: request")]
              /\ res = "TransportFailure" =>
                    /\ Severed(handler[t].s)
                    /\ buffer' = [buffer EXCEPT ![b] = Append(@, "Error: transport")]
              /\ res \in {"end_turn", "cancelled"} => buffer' = buffer]_vars

C11_Witness ==
    \E t \in Threads :
        /\ handler[t].verb = "SendPrompt"
        /\ handler[t].pc = "ret"
        /\ handler[t].result = "ProtocolError"
        /\ Len(buffer[handler[t].bufnr]) > 0
        /\ buffer[handler[t].bufnr][Len(buffer[handler[t].bufnr])] \in ErrorLines

\* C12: when the cancel notification cannot be sent, Cancel returns the error
\* and appends a line to the caller's buffer.
C12_CancelFailureRendered ==
    [][\A t \in Threads :
         (Moves(t, "Cancel", "call", "ret") /\ handler'[t].result # "ok")
         => /\ handler'[t].result = "TransportFailure"
            /\ Len(buffer'[handler[t].bufnr]) = Len(buffer[handler[t].bufnr]) + 1]_vars

\* C13: Cancel for a buffer without table entry returns NotFound; nothing is
\* sent to any agent, no scope is cancelled, no subprocess signalled and no
\* buffer appended to.
C13_CancelNotFound ==
    [][\A t \in Threads :
         (/\ handler[t].verb = "Cancel"
          /\ handler[t].pc = "start"
          /\ handler'[t] # handler[t]
          /\ sessions[handler[t].bufnr] = None)
         => /\ handler'[t].pc = "ret"
            /\ handler'[t].result = "NotFound"
            /\ UNCHANGED <<sessions, sess, agent, wire, buffer, mu>>]_vars

C13_Witness ==
    \E t \in Threads, b \in Bufs :
        /\ handler[t].verb = "Cancel"
        /\ handler[t].pc = "ret"
        /\ handler[t].result = "NotFound"
        /\ b # handler[t].bufnr
        /\ sessions[b] # None
        /\ sess[sessions[b]].proc = "running"

\* C14: a successful Cancel writes exactly one cancel notification, carrying
\* the session's protocol session id, to that session's agent; the table, the
\* session's scope and subprocess, the agent's outstanding prompts and every
\* other handler are left as they were.
C14_CancelFrame ==
    [][\A t \in Threads :
         (Moves(t, "Cancel", "call", "ret") /\ handler'[t].result = "ok")
         => LET s == handler[t].s
            IN /\ wire' = [wire EXCEPT ![s] =
                             Append(@, [method |-> "session/cancel",
                                        sid |-> AgentSessionId(s)])]
               /\ sess[s].sessionID = AgentSessionId(s)
               /\ UNCHANGED <<sessions, sess, mu>>
               /\ sess'[s].scope = "live"
               /\ sess'[s].proc = "running"
               /\ agent'[s].pending = agent[s].pending
               /\ \A u \in Threads \ {t} : handler'[u] = handler[u]]_vars

C14_Witness ==
    \E t \in Threads :
        /\ handler[t].verb = "Cancel"
        /\ handler[t].pc = "ret"
        /\ handler[t].result = "ok"
        /\ wire[handler[t].s] # <<>>
        /\ wire[handler[t].s][Len(wire[handler[t].s])].method = "session/cancel"
        /\ sess[handler[t].s].proc = "running"

\* C15: the mode id the editor shows for a buffer with a live session is the
\* one its agent last acknowledged, once the reply of a SetMode has reached the
\* editor; a successful SetMode stores the acknowledged id, a failed one
\* (no session, agent error) leaves the stored id unchanged.
C15_DisplayedModeAcknowledged ==
    /\ [](\A b \in Bufs :
            (/\ sessions[b] # None
             /\ sess[sessions[b]].proc = "running"
             /\ ~\E t \in Threads : /\ handler[t].verb = "SetMode"
                                     /\ handler[t].bufnr = b
                                     /\ handler[t].pc = "ret")
            => modes[b] = agent[sessions[b]].mode)
    /\ [][\A t \in Threads :
            (handler[t].verb = "SetMode" /\ handler[t].pc = "ret" /\ handler'[t].pc = "idle")
            => IF handler[t].result \in {"NotFound", "SetModeError"}
               THEN modes' = modes
               ELSE modes' = [modes EXCEPT ![handler[t].bufnr] = handler[t].arg]]_vars

C15_Witness ==
    \E b \in Bufs :
        /\ sessions[b] # None
        /\ sess[sessions[b]].proc = "running"
        /\ modes[b] = "code"
        /\ agent[sessions[b]].mode = "code"
        /\ \A t \in Threads : handler[t].verb # "SetMode"

\* The entries of opts.Mcp whose transport the agent supports.
KeptNames ==
    {n \in DOMAIN mcp.opts :
        /\ mcp.opts[n].type = <<"http">> => mcp.caps.Http
        /\ mcp.opts[n].type = <<"sse">> => mcp.caps.Sse}

\* C16: the MCP server list of the new-session request holds exactly the
\* translated entries of opts.Mcp, without the http entries when the agent did
\* not advertise http and without the sse entries when it did not advertise
\* sse; stdio entries all stay, and the list is never null.
C16_McpServersFiltered ==
    mcp.pc = "sent" =>
        LET items == mcp.sent.items
        IN /\ ~mcp.sent.null
           /\ Len(items) = Cardinality(KeptNames)
           /\ \A n \in KeptNames : \E i \in 1..Len(items) :
                  items[i] = ConvertMcpConfigToMcpServer(n, mcp.opts[n])
           /\ \A i \in 1..Len(items) : \E n \in KeptNames :
                  items[i] = ConvertMcpConfigToMcpServer(n, mcp.opts[n])
           /\ \A n \in DOMAIN mcp.opts :
                  mcp.opts[n].type \notin {<<"http">>, <<"sse">>} =>
                      \E i \in 1..Len(items) : items[i].kind = "stdio"

C16_Witness ==
    /\ mcp.pc = "sent"
    /\ DOMAIN mcp.opts = {"a", "b"}
    /\ mcp.opts["a"].type = <<"sse">>
    /\ mcp.opts["b"].type = <<"http">>
    /\ mcp.caps.Http
    /\ ~mcp.caps.Sse
    /\ Len(mcp.sent.items) = 1
    /\ mcp.sent.items[1].kind = "http"

C18_MissingUrlRejected ==
    \A t \in Threads :
        (/\ handler[t].verb = "NewSession"
         /\ handler[t].arg = "nourl"
         /\ handler[t].pc \notin {"start", "await_init"}
         /\ handler[t].result \notin {"AlreadyExists", "SpawnFailure",
                                       "InitializeError", "GetwdError"})
        => /\ ~crashed
           /\ handler[t].pc = "ret"
           /\ handler[t].result = "ConfigError"
           /\ \A b \in Bufs : sessions[b] # handler[t].s
           /\ sess[handler[t].s].proc # "running"

\* C19: the response of RequestPermission is either Selected or Cancelled,
\* never both and never neither, and a selected option id is the id of one of
\* the options of the request.
C19_PermissionOutcome ==
    perm.pc = "returned" =>
        /\ perm.outcome.Cancelled # (perm.outcome.Selected # <<>>)
        /\ perm.outcome.Selected # <<>> =>
              \E i \in 1..Len(perm.options) :
                  perm.options[i].OptionId = perm.outcome.Selected[1]

C19_Witness ==
    /\ perm.pc = "returned"
    /\ ~perm.autoApprove
    /\ Len(perm.options) >= 2
    /\ perm.outcome.Selected = <<perm.options[2].OptionId>>
    /\ ~perm.outcome.Cancelled

\* C20: with auto-approve set, RequestPermission answers without calling the
\* host UI, and when an allow option is offered it selects the first option in
\* declaration order whose kind is allow-once or allow-always, wherever that
\* option stands in the list.
C20_AutoApproveFirstAllow ==
    (perm.pc = "returned" /\ perm.autoApprove) =>
        /\ perm.uiCalls = 0
        /\ perm.appended = <<>>
        /\ \A i \in 1..Len(perm.options) :
              (/\ perm.options[i].Kind \in {"allow_once", "allow_always"}
               /\ \A j \in 1..(i - 1) :
                     perm.options[j].Kind \in {"reject_once", "reject_always"})
              => perm.outcome = [Selected |-> <<perm.options[i].OptionId>>,
                                 Cancelled |-> FALSE]

C20_Witness ==
    /\ perm.pc = "returned"
    /\ perm.autoApprove
    /\ Len(perm.options) = 2
    /\ perm.options[1].Kind = "reject_once"
    /\ perm.options[2].Kind = "allow_once"
    /\ perm.outcome.Selected = <<perm.options[2].OptionId>>

\* C21: with auto-approve set and no allow-once or allow-always option among
\* the options offered (only reject options, or none at all), RequestPermission
\* answers with the cancelled outcome.
C21_AutoApproveNoAllowCancelled ==
    (/\ perm.pc = "returned"
     /\ perm.autoApprove
     /\ \A i \in 1..Len(perm.options) :
           perm.options[i].Kind \notin {"allow_once", "allow_always"})
    => perm.outcome = [Selected |-> <<>>, Cancelled |-> TRUE]

\* C22: in interactive mode a host answer outside 1..len(options) (an empty
\* option list included) gives the cancelled outcome, an answer k inside gives
\* the id of the k-th option, and the option list is never read outside its
\* range.
C22_ChoiceInRange ==
    /\ perm.pc # "panic"
    /\ \A i \in 1..Len(perm.indexed) : perm.indexed[i] \in 1..Len(perm.options)
    /\ (perm.pc = "returned" /\ ~perm.autoApprove /\ ~perm.failed) =>
          IF perm.answer \in 1..Len(perm.options)
          THEN perm.outcome = [Selected |-> <<perm.options[perm.answer].OptionId>>,
                               Cancelled |-> FALSE]
          ELSE perm.outcome = [Selected |-> <<>>, Cancelled |-> TRUE]

C22_Witness ==
    /\ perm.pc = "returned"
    /\ ~perm.autoApprove
    /\ ~perm.failed
    /\ Len(perm.options) = 2
    /\ perm.answer = 3
    /\ perm.outcome.Cancelled
    /\ perm.indexed = <<>>

\* C23: ReadTextFile and WriteTextFile given a path that is not absolute
\* return the invalid-path error, and they do so before the host is asked for
\* a buffer, before any buffer is read or written, before any directory is
\* made or file read or written, and without a line in the chat buffer.
C23_RelativePathRejected ==
    (fs.pc # "idle" /\ (fs.path = <<>> \/ fs.path[1] # "/")) =>
        /\ fs.pc \in {"called", "returned"}
        /\ fs.pc = "returned" => fs.err = "InvalidPath"
        /\ fs.touched = {}
        /\ fs.chat = <<>>
        /\ fs.dirs = {<<"/">>}
        /\ fs.op = "write" => \A b \in EdBufs : fs.bufs[b] = OldLines

C23_Witness ==
    /\ fs.pc = "returned"
    /\ fs.op = "write"
    /\ fs.path = <<"f">>
    /\ fs.err = "InvalidPath"
    /\ fs.content # <<>>

\* The lines first..last of a list of lines, joined by newlines; nothing when
\* first is beyond last.
LinesJoined(lines, first, last) ==
    IF first > last THEN <<>> ELSE Join(SubSeq(lines, first, last))

\* C24: for content of n lines, a read with start line L and limit M returns
\* the lines max(L,1) .. min(max(L,1)+M-1, n) when M > 0 and the lines
\* max(L,1) .. n when M is absent or 0, the same from a buffer and from disk.
C24_ReadLineLimit ==
    LET lines == fs.bufs[1]
        n == Len(lines)
        first == IF fs.line = Nil THEN 1 ELSE max(fs.line[1], 1)
        last == IF fs.limit # Nil /\ fs.limit[1] > 0
                THEN min(first + fs.limit[1] - 1, n) ELSE n
    IN (/\ fs.op = "read"
        /\ fs.wrote = <<>>
        /\ fs.pc \in {"returned", "panic"}
        /\ fs.err = NoError
        /\ fs.limit = Nil \/ fs.limit[1] >= 0)
       => /\ fs.pc = "returned"
          /\ fs.result = LinesJoined(lines, first, last)

\* C25 as stated: every ReadTextFile call appends exactly one confirmation
\* line to the chat buffer, whether it returns content or an error.
C25_ReadAlwaysConfirms ==
    (fs.op = "read" /\ fs.pc = "returned") => Len(fs.chat) = 1

\* C25, amended: a ReadTextFile call that returns content appends exactly one
\* confirmation line, with the path and the byte count of the content it
\* returns; a call that returns an error appends nothing.
C25_ReadConfirmsContent ==
    (fs.op = "read" /\ fs.pc = "returned") =>
        IF fs.err = NoError
        THEN /\ Len(fs.chat) = 1
             /\ fs.chat[1].path = fs.path
             /\ fs.chat[1].bytes = Len(fs.result)
        ELSE fs.chat = <<>>

C25_Witness ==
    /\ fs.op = "read"
    /\ fs.pc = "returned"
    /\ fs.err = NoError
    /\ fs.line = <<2>>
    /\ Len(fs.bufs[1]) = 3
    /\ Len(fs.chat) = 1
    /\ fs.chat[1].bytes = 1

\* C26: a WriteTextFile call that succeeds writes one target.  When the host
\* reported an open buffer for the path, that buffer's lines become the lines
\* of the content and the disk stays as it was; otherwise the file is written
\* and every buffer stays as it was.  The lookup before it writes nothing.
C26_WriteOneTarget ==
    [][(fs.op = "write" /\ fs.pc # "returned") =>
          /\ fs'.pc \in {"buffer", "disk"} =>
                (fs'.bufs = fs.bufs /\ fs'.disk = fs.disk /\ fs'.dirs = fs.dirs)
          /\ (fs'.pc = "returned" /\ fs'.err = NoError) =>
                IF fs.reported \in EdBufs
                THEN /\ fs'.bufs = [fs.bufs EXCEPT ![fs.reported] = Split(fs.content)]
                     /\ fs'.disk = fs.disk
                     /\ fs'.dirs = fs.dirs
                ELSE /\ fs'.disk = [fs.disk EXCEPT ![fs.path] = <<fs.content>>]
                     /\ fs'.bufs = fs.bufs]_vars

C26_Witness ==
    /\ fs.op = "write"
    /\ fs.pc = "returned"
    /\ fs.err = NoError
    /\ fs.reported = 2
    /\ fs.content = <<"a", "\n", "b">>
    /\ fs.bufs[2] = <<<<"a">>, <<"b">>>>
    /\ fs.bufs[1] = OldLines
    /\ \A q \in DOMAIN fs.disk : fs.disk[q] # <<fs.content>>

\* C27: SessionUpdate returns no error whatever the update; a user message
\* chunk, a current-mode update, an available-commands update and an update
\* of no recognised variant append nothing to the bound buffer, and neither
\* does a tool-call update that has no title and no content.
C27_SilentUpdates ==
    upd.pc = "returned" =>
        /\ upd.err = ""
        /\ upd.update.variant \in {"UserMessageChunk", "CurrentModeUpdate",
                                    "AvailableCommandsUpdate", "none"}
              => upd.appended = <<>>
        /\ (/\ upd.update.variant = "ToolCallUpdate"
            /\ upd.update.Title = <<>>
            /\ upd.update.Content = <<>>)
              => upd.appended = <<>>

C27_Witness ==
    /\ upd.pc = "returned"
    /\ upd.update.variant = "ToolCallUpdate"
    /\ upd.update.Title = <<>>
    /\ upd.update.Status # <<>>
    /\ upd.update.Content = <<>>
    /\ upd.appended = <<>>

\* The texts of the chunks among the lines of a buffer.
IsChunk(m) == m.kind = "chunk"

ChunkTexts(lines) ==
    [i \in 1..Len(SelectSeq(lines, IsChunk)) |-> SelectSeq(lines, IsChunk)[i].text]

\* C28: when SendPrompt returns after the agent has sent its chunks and ended
\* the turn, the text of every chunk is in the bound buffer, once each and in
\* the order the agent sent them.
C28_ChunksRenderedAtReturn ==
    \A s \in TurnSessions :
        turn.host[s] = "returned" => ChunkTexts(turn.buffer[s]) = turn.emitted[s]

C30_FailuresVisible ==
    \A f \in glue.failures :
        /\ f.returned \/ f.inline
        /\ f.verb = "ACPStart" => ~f.kept

\* C31: every failing exit of NewSession that has created the session's
\* execution scope (pipe or spawn failure, initialize, working directory, MCP
\* conversion, new-session) has cancelled the scope and killed the subprocess,
\* if one was started, when the error is returned.
C31_FailingExitsRollBack ==
    \A t \in Threads :
        (/\ handler[t].verb = "NewSession"
         /\ handler[t].pc = "ret"
         /\ handler[t].result \notin {"ok", "AlreadyExists"})
        => /\ sess[handler[t].s].scope = "cancelled"
           /\ sess[handler[t].s].proc # "running"

\* A handler dereferences a connection that is nil: the host panics where the
\* handler stood.
NilDereference == ~crashed /\ crashed' /\ handler' = handler

\* The prompt, cancel and set-mode messages written to the agent of s.
SessionMessages(s) ==
    {i \in 1..Len(wire[s]) :
        wire[s][i].method \in {"session/prompt", "session/cancel", "session/set_mode"}}

\* C32: with Stop running beside SendPrompt, Cancel or SetMode on the same
\* session, no handler calls through a connection that cleanup has reset, every
\* prompt, cancel and set-mode message carries the session id the agent
\* returned, and a session's subprocess and connection handles are both set or
\* both nil.
C32_NoCallThroughResetSession ==
    /\ [][~NilDereference]_vars
    /\ [](\A s \in SessIds :
            /\ \A i \in SessionMessages(s) : wire[s][i].sid = AgentSessionId(s)
            /\ sess[s].conn <=> sess[s].cmd)

\* The step appends a message of the given methods to the wire of s.
Writes(s, methods) ==
    /\ Len(wire'[s]) = Len(wire[s]) + 1
    /\ wire'[s][Len(wire'[s])].method \in methods

\* The MCP servers of a new-session request for opts.Mcp that an agent with
\* or without the http capability must be given.
ExpectedServers(arg, http) ==
    IF arg = "http" /\ http
    THEN <<ConvertMcpConfigToMcpServer("a", OptsOf("http")["a"])>>
    ELSE <<>>

\* C33: on each agent connection initialize is the first message; new-session
\* is the second, written by the handler that received the initialize
\* response, with the MCP servers filtered by the capabilities that agent
\* advertised; prompt, cancel and set-mode messages come after both, carry the
\* id of the new-session response and are written only for a session that is
\* in the table.
C33_HandshakeOrder ==
    /\ [](\A s \in SessIds :
            /\ \A i \in 1..Len(wire[s]) :
                   /\ wire[s][i].method = "initialize" <=> i = 1
                   /\ wire[s][i].method = "session/new" <=> i = 2
            /\ \A i \in SessionMessages(s) : wire[s][i].sid # 0)
    /\ [][\A s \in SessIds :
             /\ Writes(s, {"session/new"}) =>
                    \E t \in Threads :
                        /\ handler[t].s = s
                        /\ Moves(t, "NewSession", "await_init", "await_new")
                        /\ wire'[s][2].McpServers.items =
                               ExpectedServers(handler[t].arg, AgentHttp(s))
                        /\ ~wire'[s][2].McpServers.null
             /\ Writes(s, {"session/prompt", "session/cancel", "session/set_mode"}) =>
                    /\ sessions[sess[s].bufnr] = s
                    /\ sess[s].sessionID = AgentSessionId(s)]_vars

C33_Witness ==
    \E s \in SessIds :
        /\ Len(wire[s]) = 3
        /\ wire[s][2].McpServers.items # <<>>
        /\ wire[s][3].method = "session/prompt"

\* The lines an interactive request must have written for its response: one
\* granted line naming the option whose id is returned, or one denied line.
OutcomeLines ==
    IF perm.outcome.Cancelled
    THEN <<[text |-> "[Permission denied]", name |-> 0]>>
    ELSE LET i == CHOOSE i \in 1..Len(perm.options) :
                      <<perm.options[i].OptionId>> = perm.outcome.Selected
         IN <<[text |-> "[Permission granted: %s]", name |-> perm.options[i].Name]>>

\* C34: every interactive RequestPermission has written its outcome into the
\* buffer when it returns: exactly one granted line naming the returned option
\* before a Selected response, exactly one denied line before every Cancelled
\* response, whether the answer was out of range or the host's selection call
\* failed.
C34_OutcomeWritten ==
    (perm.pc = "returned" /\ ~perm.autoApprove) => perm.appended = OutcomeLines

\* C34, amended: when the host's selection call succeeded, the outcome is
\* written as above; when it failed, the response is Cancelled and nothing is
\* written into the buffer.
C34_OutcomeWrittenUnlessCallFailed ==
    (perm.pc = "returned" /\ ~perm.autoApprove) =>
        IF perm.failed
        THEN perm.outcome = Cancelled /\ perm.appended = <<>>
        ELSE perm.appended = OutcomeLines

C34_Witness ==
    /\ perm.pc = "returned"
    /\ ~perm.autoApprove
    /\ ~perm.failed
    /\ Len(perm.options) = 3
    /\ perm.outcome = Selected(perm.options[2])
    /\ perm.appended = <<[text |-> "[Permission granted: %s]", name |-> 202]>>

\* C35: for every start line and limit, a read served from disk slices the
\* lines with 0 <= start <= end <= number of lines and never goes out of
\* range.
C35_SliceInRange ==
    (/\ fs.op = "read"
     /\ "ReadFile" \in fs.touched
     /\ fs.err = NoError
     /\ fs.line # Nil \/ fs.limit # Nil)
    => LET lines == Split(fs.disk[fs.path][1])
           first == SliceStart(lines, fs.line)
           last == SliceEnd(lines, fs.line, fs.limit)
       IN /\ 0 <= first
          /\ first <= last
          /\ last <= Len(lines)
          /\ fs.pc # "panic"

\* The step is stop() for buffer b: the one command that drops an entry.
StopOf(b) == glue'.cmds = glue.cmds + 1 /\ glue.sessions \ glue'.sessions = {b}

\* The step is the exit callback of host job j.
ExitOf(j) == j \in glue.procs /\ j \notin glue'.procs

\* C36: an entry that start() recorded stays in the editor's table, and the
\* job id of the running host stays recorded, until stop() is called for that
\* buffer or the host serving that session exits; the exit callback of a host
\* stopped earlier clears nothing of a host started after it; at most one
\* host job runs at a time.
C36_EntriesKeptUntilStopOrExit ==
    /\ [][/\ \A b \in glue.sessions \ glue'.sessions :
                StopOf(b) \/ ExitOf(glue.served[b])
          /\ (glue.job # NoJob /\ glue'.job # glue.job) =>
                (\E b \in glue.sessions : StopOf(b)) \/ ExitOf(glue.job)]_vars
    /\ [](Cardinality(glue.procs \ glue.stopped) <= 1)

\* C37: a ReadTextFile without start line and limit that follows a successful
\* WriteTextFile of the same absolute path returns exactly the content
\* written, from an open buffer and from the disk alike.
C37_WriteReadRoundTrip ==
    (fs.op = "read" /\ fs.wrote # <<>> /\ fs.pc \in {"returned", "panic"}) =>
        /\ fs.pc = "returned"
        /\ fs.err = NoError => fs.result = fs.wrote[1]
        /\ fs.err # NoError => fs.err = "BufferLinesError"

C37_Witness ==
    /\ fs.op = "read"
    /\ fs.pc = "returned"
    /\ fs.err = NoError
    /\ fs.wrote = <<<<"a", "\n", "\n">>>>
    /\ fs.reported = 2
    /\ fs.result = <<"a", "\n", "\n">>
    /\ "BufferLines" \in fs.touched

\* C38: in the test agent a prompt that has resolved answered "cancelled" when
\* its abort signal was triggered (by cancel or by a newer prompt of the
\* session) and "end_turn" when it was not, never an error; and pendingPrompt
\* is non-null only while some prompt of the session is being handled.
C38_AbortedCancelledElseEndTurn ==
    /\ \A p \in Prompts :
         testAgent.prompts[p].pc = "done" =>
             testAgent.prompts[p].result =
                 (IF p \in testAgent.aborted THEN "cancelled" ELSE "end_turn")
    /\ testAgent.pendingPrompt # NoController =>
         \E p \in Prompts : testAgent.prompts[p].pc = "handling"

\* C39: the bridge does not deadlock on the manager mutex: a handler that
\* holds the mutex is never at a point where it acquires it, and when the
\* agents and the editor answer, every handler that has acquired the mutex
\* eventually releases it.
C39_MutexReleased ==
    /\ [](\A t \in Threads : mu = t => handler[t].pc # "start")
    /\ \A t \in Threads : (mu = t) ~> (mu # t)

====
